---- MODULE Spec2Model ----
(***************************************************************************)
(* Model of the stock-market simulation and trading-bot harness.           *)
(*                                                                         *)
(* Two programs of the repository are modelled over one set of variables:  *)
(* the browser session (js/enhanced-simulator.js driven by the game page   *)
(* handlers, with the AdvancedTradingFeatures short book and margin        *)
(* account and the BotAPIServer of js/bot-api.js on top of it, and the     *)
(* page's export and import) and the server (server.js: the bot            *)
(* routes, the market-data interval, the WebSocket handlers and the save   *)
(* store, the shutdown of the process; chat-manager.js: the chat log;      *)
(* user-manager.js: the user store).  The specifications that start them:  *)
(*   SpecDayTrader : a session in daytrader mode;                          *)
(*   SpecCustom    : a session in custom mode, with its week budget;       *)
(*   SpecShort     : a classic session with the short book;                *)
(*   SpecTrader    : a classic session with every caller of buy and sell:  *)
(*                   the page, the margin account and the BotAPIServer;    *)
(*   SpecLedger    : a classic session traded through the page and through *)
(*                   buy and sell calls made on the session itself;        *)
(*   SpecValue     : a classic session with openShort, and the bots of the *)
(*                   server;                                               *)
(*   SpecFeed      : the server, a bot and the WebSocket clients;          *)
(*   SpecStream    : the same, with the messages handed to the             *)
(*                   connections of one client recorded;                   *)
(*   SpecSaves     : the save store: save, load and delete a preset;       *)
(*   SpecCreate    : the save store: create a save code;                   *)
(*   SpecChat      : the chat log and its readers;                         *)
(*   SpecChallenge : a session in challenge mode, with news spikes;        *)
(*   SpecCapital   : classic sessions of several starting capitals;        *)
(*   SpecShutdown  : the server, its connections and the SIGINT handler;   *)
(*   SpecUsers     : registerUser calls that run concurrently;             *)
(*   SpecReset     : the server, its bots and its WebSocket clients, with  *)
(*                   the reset route;                                      *)
(*   SpecCounters  : the same, the bots trading a share or two at a time.  *)
(*                                                                         *)
(* Money is modelled in integers.  In the session the unit is one cent:    *)
(* the price floor 0.01 is 1 and AAPL's base price 178.50 is 17850.  On    *)
(* the server the unit is a hundredth of a cent, so that the 0.1%          *)
(* commission of an order is a whole number: the price floor is 100.  The  *)
(* market data of the server holds no symbol, the stock list it is built   *)
(* from being empty.                                                       *)
(* Math.random() is a nondeterministic choice of the raw price a tick      *)
(* computes; simulated dates are whole days counted from 2024-01-01.       *)
(***************************************************************************)
EXTENDS Integers, Sequences, FiniteSets, TLC

VARIABLES
    config,          \* EnhancedSimulator.config, with the zone of the page
    stocks,          \* EnhancedSimulator.stocks: array of {symbol, price}
    priceHistory,    \* EnhancedSimulator.priceHistory: symbol -> array of prices
    portfolio,       \* EnhancedSimulator.portfolio: {cash, holdings}
    trades,          \* EnhancedSimulator.trades: the trade log
    modeState,       \* EnhancedSimulator.modeState
    simulatedTime,   \* EnhancedSimulator.simulatedTime, in days after 2024-01-01
    initialCapital,  \* EnhancedSimulator.initialCapital
    shortPositions,  \* AdvancedTradingFeatures.shortPositions
    shortCalls,      \* number of openShort and closeShort calls that went through
    marginAccount,   \* AdvancedTradingFeatures.marginAccount
    botAPI,          \* js/bot-api.js: the BotAPIServer initialized with the session
    lastOp,          \* the last call made on the session and what it returned
    marketData,      \* server.js marketData: symbol -> price
    bots,            \* server.js bots: bot id -> bot record
    portfolios,      \* server.js portfolios: bot id -> {cash, holdings}
    orders,          \* server.js orders, in order-id order
    orderIdCounter,  \* server.js orderIdCounter
    botIdCounter,    \* server.js botIdCounter
    lastOrder,       \* the last /api/bot/order request and its response
    wsClients,       \* server.js wss.clients: the open connections, by client id
    subscriptions,   \* server.js subscriptions: client id -> set of channels
    wsSent,          \* the frames the last step sent: {to, message}
    wsBuffered,      \* per watched connection, the messages handed to send()
    gameSaves,       \* server.js gameSaves: save code -> save record
    saveCalls,       \* number of save-store requests that went through
    saveTasks,       \* the save-store handlers that wait at an await
    lastSave,        \* the last save-store request answered and its response
    chatMessages,    \* chat-manager.js chatMessages: the in-memory chat log
    chatPending,     \* the addMessage calls that wait for the sender's profile
    lastRead,        \* the getMessages call of the last step and its result
    process,         \* server.js: the process, its listener and its shutdown
    users,           \* user-manager.js users: the in-memory user store
    registering,     \* the registerUser calls that are under way, by caller
    lastRegister     \* the last registerUser call that returned or threw

simVars == <<config, stocks, priceHistory, portfolio, trades, modeState,
             simulatedTime, initialCapital, shortPositions, shortCalls,
             marginAccount, botAPI, lastOp>>
botVars == <<marketData, bots, portfolios, orders, orderIdCounter,
             botIdCounter, lastOrder, wsClients, subscriptions, wsSent,
             wsBuffered>>
saveVars == <<gameSaves, saveCalls, saveTasks, lastSave>>
chatVars == <<chatMessages, chatPending, lastRead>>
procVars == <<process>>
userVars == <<users, registering, lastRegister>>
vars == <<config, stocks, priceHistory, portfolio, trades, modeState,
          simulatedTime, initialCapital, shortPositions, shortCalls,
          marginAccount, botAPI, lastOp,
          marketData, bots, portfolios, orders, orderIdCounter, botIdCounter,
          lastOrder, wsClients, subscriptions, wsSent, wsBuffered, gameSaves,
          saveCalls, saveTasks, lastSave, chatMessages, chatPending, lastRead, process,
          users,
          registering, lastRegister>>

\* what a session call, a bot route and a save route leave alone
outsideSession == <<botVars, saveVars, chatVars, procVars, userVars>>
outsideBots == <<simVars, saveVars, chatVars, procVars, userVars>>
outsideSaves == <<simVars, botVars, chatVars, userVars>>
outsideChat == <<simVars, botVars, saveVars, procVars, userVars>>
outsideProcess == <<simVars, saveVars, chatVars, userVars>>
outsideUsers == <<simVars, botVars, saveVars, chatVars, procVars>>

(***************************************************************************)
(* Bounds of the model.                                                    *)
(***************************************************************************)
MaxTicks == 2     \* price updates performed in one session
MaxTrades == 2    \* length of the trade log of a session without day-trade limit
MaxWeeks == 1     \* largest week budget of a custom session
MaxShortCalls == 2 \* openShort and closeShort calls that go through
MaxOrders == 2    \* orders recorded by the server
MaxFrames == 3    \* messages handed to one watched connection
MaxBots == 1      \* bots registered on the server
MaxMessages == 101 \* messages in the chat log
MaxPending == 2   \* addMessage calls that wait at their await
MaxSkewed == 2    \* messages stamped while the clock stands still or is set back
MaxSaveCalls == 4 \* save-store requests that go through
MaxInFlight == 2  \* save-store handlers that wait at an await
MaxSeconds == 11  \* seconds counted after a shutdown signal
MaxUsers == 2     \* users in the in-memory user store
MaxDays == 1      \* days that pass in a session with every caller of buy

Max(a, b) == IF a >= b THEN a ELSE b

(***************************************************************************)
(* The catalog.  REAL_STOCKS lists NVDA twice (once under "Tech Giants",   *)
(* once under "Gaming & Entertainment") with the same base price, 875.45,  *)
(* the highest of the catalog; the model keeps AAPL, at 178.50, and the    *)
(* two NVDA entries.  The volatility and type of an entry only shape the   *)
(* random term of a tick.                                                  *)
(***************************************************************************)
REAL_STOCKS ==
    << [symbol |-> "AAPL", basePrice |-> 17850],
       [symbol |-> "NVDA", basePrice |-> 87545],
       [symbol |-> "NVDA", basePrice |-> 87545] >>

Symbols == {REAL_STOCKS[i].symbol : i \in DOMAIN REAL_STOCKS}

\* a symbol no stock carries, and the symbols an order may name
UnknownSymbol == "ZZZZ"
OrderSymbols == {"AAPL", UnknownSymbol}

\* One tick draws, for every entry of stocks, the value of
\* previousPrice * spike + randomChange + drift + momentum, a value close to
\* the previous price.  Two draws: in the first the two NVDA entries draw
\* different values, in the second the same.
RawDraws == { <<17900, 87600, 87545>>, <<17850, 87545, 87545>> }

\* the day counts updatePrices is called with: the interval of the game page
\* passes 1, the custom-mode scenario of scripts/jsdom-test.js passes 7 and 1;
\* a session of ten weeks is advanced by one week or by nine, which takes it
\* to the days before daylight saving
TimeSkips(cfg) ==
    IF cfg.mode # "custom" THEN {1}
    ELSE IF cfg.weeks = 10 THEN {7, 63}
    ELSE {1, 7}

\* the share counts typed into the trading panel
ShareInputs == {0, 1, 2}

\* Math.max(..., 0.01), in cents
PriceFloor == 1

\* weeksRemaining() of a session that is not in custom mode
Infinity == 999999

Modes == {"classic", "challenge", "daytrader", "portfolio", "custom"}

\* the time zones a page runs in: one without daylight saving and two with
TimeZones == {"UTC", "America/New_York", "Europe/London"}

\* the starting capital loadConfig gives a custom session, 10,000.00, and
\* the one scripts/jsdom-test.js stores for its challenge session, 1,234.00,
\* which the sessions of the other modes are started with
CustomCapital == 1000000
StartingCapital == 123400

\* the configurations a session is constructed with; timeZone is the zone of
\* the page, which the dates of the session are local to.  A custom session
\* has a short week budget, or one of ten weeks, which ends after daylight
\* saving has begun in New York
Configs ==
    {[mode |-> m, weeks |-> 0, startingCapital |-> StartingCapital,
      timeZone |-> "UTC"] : m \in Modes \ {"custom"}}
    \cup {[mode |-> "custom", weeks |-> w, startingCapital |-> CustomCapital,
           timeZone |-> "UTC"] : w \in 1..MaxWeeks}
    \cup {[mode |-> "custom", weeks |-> 10, startingCapital |-> CustomCapital,
           timeZone |-> z] : z \in TimeZones}

NoState == << >>

\* an object or Map without entries
EmptyMap == [k \in {} |-> 0]

\* stocks.find(s => s.symbol === symbol): index of the first match, 0 for none
FindStock(stks, sym) ==
    IF \E i \in DOMAIN stks : stks[i].symbol = sym
    THEN CHOOSE i \in DOMAIN stks :
            /\ stks[i].symbol = sym
            /\ \A j \in DOMAIN stks : stks[j].symbol = sym => i <= j
    ELSE 0

\* The hours by which local midnight of day t is nearer to local midnight of
\* 2024-01-01 than t whole days: 1 while daylight saving is on (in New York
\* from 2024-03-10, day 69, 02:00 to 2024-11-03, day 307, 02:00; in London
\* from 2024-03-31, day 90, 01:00 to 2024-10-27, day 300, 02:00).  Days of
\* 2024 only.
hoursSkipped(zone, t) ==
    IF zone = "America/New_York" /\ t >= 70 /\ t <= 307 THEN 1
    ELSE IF zone = "Europe/London" /\ t >= 91 /\ t <= 300 THEN 1
    ELSE 0

\* Math.floor((simulatedTime - new Date(2024, 0, 1)) / 86400000) + 1
getDayCount(zone, t) == ((t * 24 - hoursSkipped(zone, t)) \div 24) + 1

initializeModeState(cfg) ==
    IF cfg.mode = "challenge"
    THEN [dailyTarget |-> (cfg.startingCapital * 5) \div 100,
          daysCompleted |-> 0, streakDays |-> 0]
    ELSE IF cfg.mode = "daytrader"
    THEN [totalDayTrades |-> 0, maxDayTrades |-> 3]
    ELSE IF cfg.mode = "portfolio"
    THEN [targetAllocation |->
            [growth |-> 40, dividend |-> 30, etf |-> 20, bond |-> 10]]
    ELSE NoState

\* the stocks array of a new session
initializeStocks ==
    [i \in DOMAIN REAL_STOCKS |->
        [symbol |-> REAL_STOCKS[i].symbol, price |-> REAL_STOCKS[i].basePrice]]

\* the priceHistory of a new session: the forEach assigns one array per entry,
\* so the last entry of a symbol decides
initializePriceHistory ==
    [s \in Symbols |->
        LET last == CHOOSE i \in DOMAIN REAL_STOCKS :
                        /\ REAL_STOCKS[i].symbol = s
                        /\ \A j \in DOMAIN REAL_STOCKS :
                              REAL_STOCKS[j].symbol = s => j <= i
        IN << REAL_STOCKS[last].basePrice >>]

weeksRemaining(cfg, ms, t) ==
    IF cfg.mode # "custom" THEN Infinity
    ELSE LET elapsedDays == getDayCount(cfg.timeZone, t) - ms.startDayCount
             weeksUsed == elapsedDays \div 7
         IN Max(cfg.weeks - weeksUsed, 0)

\* the guard with < for <=: a session with 0 weeks left still advances
weeksExhaustedStrict(cfg, ms, t) ==
    cfg.mode = "custom" /\ weeksRemaining(cfg, ms, t) < 0

\* the guard that opens updatePrices
weeksExhausted(cfg, ms, t) ==
    cfg.mode = "custom" /\ weeksRemaining(cfg, ms, t) <= 0

\* the price a tick stores for one stock
nextPrice(raw) == Max(raw, PriceFloor)

\* the forEach of updatePrices, from entry i on: every entry gets its new
\* price and pushes it on the history of its symbol
RECURSIVE tickStocks(_, _, _, _)
tickStocks(i, stks, hist, raw) ==
    IF i > Len(stks) THEN [stocks |-> stks, priceHistory |-> hist]
    ELSE LET p == nextPrice(raw[i])
             sym == stks[i].symbol
         IN tickStocks(i + 1,
                       [stks EXCEPT ![i].price = p],
                       [hist EXCEPT ![sym] = Append(@, p)],
                       raw)

\* A session as the constructor leaves it.  portfolio.holdings is a plain
\* object, and nothing in the repository replaces it by a Map.
InitSessionOf(configs) ==
    /\ config \in configs
    /\ stocks = initializeStocks
    /\ priceHistory = initializePriceHistory
    /\ portfolio = [cash |-> config.startingCapital, holdings |-> EmptyMap]
    /\ trades = << >>
    /\ modeState = IF config.mode = "custom"
                   THEN [startDayCount |-> getDayCount(config.timeZone, 0)]
                   ELSE initializeModeState(config)
    /\ simulatedTime = 0
    /\ initialCapital = config.startingCapital
    /\ shortPositions = EmptyMap
    /\ shortCalls = 0
    /\ marginAccount = [enabled |-> FALSE, usedMargin |-> 0,
                        marginLevel |-> [number |-> 0], marginCall |-> FALSE]
    /\ botAPI = [botSessions |-> EmptyMap, connectedBots |-> {},
                 orderBook |-> << >>]
    /\ lastOp = [op |-> "new", success |-> TRUE, message |-> ""]

InitSession(modes) ==
    InitSessionOf({c \in Configs : c.mode \in modes})

\* the starting capitals an options object carries: 0, 10,000.00,
\* 1,000,000.00 and 1,000,000.01
CapitalInputs == {0, 1000000, 100000000, 100000001}

\* the options objects a classic session is constructed with: one without
\* startingCapital, and one for every capital of CapitalInputs
CapitalOptions ==
    {[mode |-> "classic"]}
    \cup {[mode |-> "classic", startingCapital |-> c] : c \in CapitalInputs}

\* the cap the options page announces for the starting capital
CapitalCap == 100000000

\* the default of the constructor
DefaultCapital == 2500000

\* { ...defaults, ...options }: an own property of options, whatever its
\* value, replaces the default of its name
Spread(defaults, options) ==
    [k \in DOMAIN defaults \cup DOMAIN options |->
        IF k \in DOMAIN options THEN options[k] ELSE defaults[k]]

\* this.config of new EnhancedSimulator(options) on a page in UTC: every
\* default is options.key || value, and the spread of options that ends the
\* literal writes the own properties of options over them, a startingCapital
\* of 0 included
constructorConfig(options) ==
    Spread([startingCapital |->
                IF "startingCapital" \in DOMAIN options
                   /\ options.startingCapital # 0
                THEN options.startingCapital ELSE DefaultCapital,
            mode |-> IF "mode" \in DOMAIN options /\ options.mode # ""
                     THEN options.mode ELSE "classic",
            weeks |-> IF "weeks" \in DOMAIN options /\ options.weeks # 0
                      THEN options.weeks ELSE 0,
            timeZone |-> "UTC"],
           options)

CapitalConfigs == {constructorConfig(options) : options \in CapitalOptions}

(***************************************************************************)
(* The values of JavaScript a share count takes.  buy and sell work on     *)
(* whatever their caller hands them: the game page hands the number that   *)
(* parseInt read, buyOnMargin and BotAPIServer.placeOrder the argument of  *)
(* their own caller, a number or a string.  A value is a record: a number, *)
(* NaN, or a string, kept as the sequence of its characters.  Numbers are  *)
(* whole, strings are made of digits and signs.                            *)
(***************************************************************************)
Num(n) == [number |-> n]
Str(text) == [string |-> text]
NaN == [nan |-> TRUE]

\* undefined and null; every other record is an object
Undefined == [undefined |-> TRUE]
JsNull == [null |-> TRUE]

IsNum(v) == "number" \in DOMAIN v
IsStr(v) == "string" \in DOMAIN v

Digits == <<"0", "1", "2", "3", "4", "5", "6", "7", "8", "9">>
IsDigit(c) == \E d \in 0..9 : Digits[d + 1] = c
DigitOf(c) == CHOOSE d \in 0..9 : Digits[d + 1] = c

\* the decimal digits of n >= 0, and the number a sequence of digits writes
RECURSIVE DecimalOf(_)
DecimalOf(n) ==
    IF n < 10 THEN << Digits[n + 1] >>
    ELSE Append(DecimalOf(n \div 10), Digits[(n % 10) + 1])
RECURSIVE ValueOf(_)
ValueOf(text) ==
    IF text = << >> THEN 0
    ELSE ValueOf(SubSeq(text, 1, Len(text) - 1)) * 10 + DigitOf(text[Len(text)])

\* String(v)
StringOf(v) ==
    IF IsStr(v) THEN v.string
    ELSE IF IsNum(v)
    THEN IF v.number < 0 THEN << "-" >> \o DecimalOf(0 - v.number)
         ELSE DecimalOf(v.number)
    ELSE << "N", "a", "N" >>

\* Number(v): the empty string reads as 0, digits after at most one sign as
\* the number they write, any other string as NaN
ToNumber(v) ==
    IF ~IsStr(v) THEN v
    ELSE LET text == v.string IN
         IF text = << >> THEN Num(0)
         ELSE IF \A i \in DOMAIN text : IsDigit(text[i]) THEN Num(ValueOf(text))
         ELSE IF /\ Len(text) > 1
                 /\ text[1] \in {"-", "+"}
                 /\ \A i \in 2..Len(text) : IsDigit(text[i])
         THEN Num((IF text[1] = "-" THEN -1 ELSE 1) * ValueOf(Tail(text)))
         ELSE NaN

\* !!v: 0, NaN, the empty string, undefined and null are falsy
Truthy(v) ==
    IF IsStr(v) THEN v.string # << >>
    ELSE IF IsNum(v) THEN v.number # 0
    ELSE v \notin {NaN, Undefined, JsNull}

\* a || b
Or(a, b) == IF Truthy(a) THEN a ELSE b

\* a + b: the concatenation of the two as strings when either is a string
Plus(a, b) ==
    IF IsStr(a) \/ IsStr(b) THEN Str(StringOf(a) \o StringOf(b))
    ELSE IF IsNum(a) /\ IsNum(b) THEN Num(a.number + b.number)
    ELSE NaN

\* a - b and a * b: both operands are read as numbers
Minus(a, b) ==
    LET x == ToNumber(a)
        y == ToNumber(b)
    IN IF IsNum(x) /\ IsNum(y) THEN Num(x.number - y.number) ELSE NaN
Times(a, b) ==
    LET x == ToNumber(a)
        y == ToNumber(b)
    IN IF IsNum(x) /\ IsNum(y) THEN Num(x.number * y.number) ELSE NaN

\* the code unit of a character
CharCode(c) ==
    IF c = "+" THEN 43
    ELSE IF c = "-" THEN 45
    ELSE IF c = "N" THEN 78
    ELSE IF c = "a" THEN 97
    ELSE 48 + DigitOf(c)

\* s < t for two strings: the code units decide, a proper prefix comes first
RECURSIVE Precedes(_, _)
Precedes(s, t) ==
    IF t = << >> THEN FALSE
    ELSE IF s = << >> THEN TRUE
    ELSE IF CharCode(s[1]) # CharCode(t[1]) THEN CharCode(s[1]) < CharCode(t[1])
    ELSE Precedes(Tail(s), Tail(t))

\* a > b and a <= b: two strings are compared as strings, any other pair as
\* numbers, and a comparison with NaN is false
GreaterThan(a, b) ==
    IF IsStr(a) /\ IsStr(b) THEN Precedes(b.string, a.string)
    ELSE LET x == ToNumber(a)
             y == ToNumber(b)
         IN IsNum(x) /\ IsNum(y) /\ x.number > y.number
AtMost(a, b) ==
    IF IsStr(a) /\ IsStr(b) THEN ~Precedes(b.string, a.string)
    ELSE LET x == ToNumber(a)
             y == ToNumber(b)
         IN IsNum(x) /\ IsNum(y) /\ x.number <= y.number

\* toUpperCase() and toLowerCase() on the strings the requests carry
toUpperCase(str) ==
    IF str = "aapl" THEN "AAPL"
    ELSE IF str = "aaaaaaaaa" THEN "AAAAAAAAA"
    ELSE IF str = "buy" THEN "BUY"
    ELSE IF str = "sell" THEN "SELL"
    ELSE IF str = "hold" THEN "HOLD"
    ELSE str
toLowerCase(str) ==
    IF str = "SELL" THEN "sell"
    ELSE IF str = "A@x.io" THEN "a@x.io"
    ELSE IF str = "Bob " THEN "bob "
    ELSE str

\* trim() on the strings the callers type
trim(str) ==
    IF str = "bob " THEN "bob"
    ELSE IF str = " aaaaaaaaa" THEN "aaaaaaaaa"
    ELSE str

(***************************************************************************)
(* The Trader: EnhancedSimulator.buy and sell.  Each operator yields the   *)
(* portfolio, trade log and mode state the call leaves behind, with the    *)
(* result it returns.                                                      *)
(***************************************************************************)
\* holdings[symbol] || 0
Held(h, sym) == IF sym \in DOMAIN h THEN Or(h[sym], Num(0)) ELSE Num(0)

\* holdings[symbol] = (holdings[symbol] || 0) + shares
AddShares(h, sym, shares) ==
    [k \in DOMAIN h \cup {sym} |->
        IF k = sym THEN Plus(Held(h, sym), shares) ELSE h[k]]

\* the sale without the delete: a symbol sold out stays, with zero shares
RemoveSharesKeepingZero(h, sym, shares) ==
    [k \in DOMAIN h \cup {sym} |->
        IF k = sym
        THEN (IF sym \in DOMAIN h THEN Minus(h[sym], shares) ELSE NaN)
        ELSE h[k]]

\* holdings[symbol] -= shares; if (holdings[symbol] === 0) delete
RemoveShares(h, sym, shares) ==
    LET left == IF sym \in DOMAIN h THEN Minus(h[sym], shares) ELSE NaN IN
    IF left = Num(0)
    THEN [k \in DOMAIN h \ {sym} |-> h[k]]
    ELSE [k \in DOMAIN h \cup {sym} |-> IF k = sym THEN left ELSE h[k]]

Rejected(message) ==
    [portfolio |-> portfolio, trades |-> trades, modeState |-> modeState,
     success |-> FALSE, message |-> message]

\* the daytrader check with > for >=: a fourth order is let through
dayTradeLimitOffByOne(cfg, ms) ==
    cfg.mode = "daytrader" /\ ms.totalDayTrades > ms.maxDayTrades

\* the daytrader check of buy and of sell
dayTradeLimitReached(cfg, ms) ==
    cfg.mode = "daytrader" /\ ms.totalDayTrades >= ms.maxDayTrades

\* this.modeState.totalDayTrades++ in daytrader mode
countDayTrade(cfg, ms) ==
    IF cfg.mode = "daytrader"
    THEN [ms EXCEPT !.totalDayTrades = @ + 1]
    ELSE ms

\* a log entry stamped with a date before the start date
TradeBackdated(type, sym, shares, price) ==
    [type |-> type, symbol |-> sym, shares |-> shares, price |-> price,
     simulatedTime |-> 0 - simulatedTime - 1]

Trade(type, sym, shares, price) ==
    [type |-> type, symbol |-> sym, shares |-> shares, price |-> price,
     simulatedTime |-> simulatedTime]

\* a cost that is the price of one share, whatever the share count
costOfOne(price, shares) == price

\* const cost = stock.price * shares
cost(price, shares) == price * ToNumber(shares).number

\* buy(symbol, shares), shares a value that reads as a number
buy(sym, shares) ==
    LET i == FindStock(stocks, sym) IN
    IF i = 0 THEN Rejected("Stock not found")
    ELSE
    LET price == stocks[i].price
        due == cost(price, shares)
    IN
    IF due > portfolio.cash THEN Rejected("Insufficient cash")
    ELSE IF dayTradeLimitReached(config, modeState)
    THEN Rejected("Day trade limit reached (3 per day)")
    ELSE [portfolio |-> [portfolio EXCEPT
                            !.cash = @ - due,
                            !.holdings = AddShares(@, sym, shares)],
          trades |-> Append(trades, Trade("BUY", sym, shares, price)),
          modeState |-> countDayTrade(config, modeState),
          success |-> TRUE, message |-> "Bought"]

\* sell(symbol, shares), shares a value that reads as a number, on a
\* session with this portfolio, trade log and mode state
sellOn(pf, log, ms, sym, shares) ==
    LET i == FindStock(stocks, sym) IN
    IF i = 0
    THEN [portfolio |-> pf, trades |-> log, modeState |-> ms,
          success |-> FALSE, message |-> "Stock not found"]
    ELSE
    LET price == stocks[i].price
        held == Held(pf.holdings, sym)
    IN
    IF GreaterThan(shares, held)
    THEN [portfolio |-> pf, trades |-> log, modeState |-> ms,
          success |-> FALSE, message |-> "Insufficient shares"]
    ELSE
    LET proceeds == price * ToNumber(shares).number
        sold == [pf EXCEPT
                    !.cash = @ + proceeds,
                    !.holdings = RemoveShares(@, sym, shares)]
    IN
    \* cash and holdings are written before the daytrader check
    IF dayTradeLimitReached(config, ms)
    THEN [portfolio |-> sold, trades |-> log, modeState |-> ms,
          success |-> FALSE, message |-> "Day trade limit reached"]
    ELSE [portfolio |-> sold,
          trades |-> Append(log, Trade("SELL", sym, shares, price)),
          modeState |-> countDayTrade(config, ms),
          success |-> TRUE, message |-> "Sold"]

sell(sym, shares) == sellOn(portfolio, trades, modeState, sym, shares)

\* the sum of stock.price * shares over the entries of holdings whose stock
\* is found
RECURSIVE SumValue(_, _, _)
SumValue(h, stks, syms) ==
    IF syms = {} THEN Num(0)
    ELSE LET sym == CHOOSE x \in syms : TRUE
             i == FindStock(stks, sym)
         IN Plus(IF i # 0 THEN Times(Num(stks[i].price), h[sym]) ELSE Num(0),
                 SumValue(h, stks, syms \ {sym}))

\* the total value without the positions: the cash alone
getPortfolioValueCashOnly == Num(portfolio.cash)

\* the total value the session reports: a number, or NaN
getPortfolioValue ==
    Plus(Num(portfolio.cash),
         SumValue(portfolio.holdings, stocks, DOMAIN portfolio.holdings))

(***************************************************************************)
(* AdvancedTradingFeatures: the short book kept beside the session.  The   *)
(* class reads portfolio.holdings through has().  The holdings of a       *)
(* session are a plain object, which has no has(): the call raises a       *)
(* TypeError, and openShort throws it on before it has changed anything.   *)
(***************************************************************************)
\* typeof portfolio.holdings.has === 'function'
hasIsFunction(pf) == FALSE

\* portfolio.holdings.has(symbol), were holdings a Map: buy and sell set
\* properties and never Map entries
holdingsHas(pf, sym) == FALSE

ShortResult(cash, shorts, success, message) ==
    [cash |-> cash, shortPositions |-> shorts, success |-> success,
     message |-> message]

openShort(sym, quantity) ==
    LET i == FindStock(stocks, sym) IN
    IF i = 0
    THEN ShortResult(portfolio.cash, shortPositions, FALSE, "Stock not found")
    ELSE IF ~hasIsFunction(portfolio)
    THEN ShortResult(portfolio.cash, shortPositions, FALSE, "TypeError")
    ELSE IF ~holdingsHas(portfolio, sym)
    THEN LET shortCost == stocks[i].price * quantity IN
         ShortResult(portfolio.cash + shortCost,
                     [k \in DOMAIN shortPositions \cup {sym} |->
                        IF k = sym
                        THEN [quantity |-> quantity, entryPrice |-> stocks[i].price]
                        ELSE shortPositions[k]],
                     TRUE, "Shorted")
    ELSE ShortResult(portfolio.cash, shortPositions, FALSE,
                     "Close existing long position first")

\* closeShort without the look for the position: the cost of the shares is
\* taken whether a short is open or not
closeShortOnCharging(cash, shorts, sym, quantity) ==
    LET i == FindStock(stocks, sym) IN
    IF i = 0 THEN ShortResult(cash, shorts, FALSE, "No short position found")
    ELSE ShortResult(cash - stocks[i].price * quantity,
                     IF sym \in DOMAIN shorts /\ quantity < shorts[sym].quantity
                     THEN [shorts EXCEPT ![sym].quantity = @ - quantity]
                     ELSE [k \in DOMAIN shorts \ {sym} |-> shorts[k]],
                     TRUE, "Closed short position")

\* closeShort on a session with this cash and this short book
closeShortOn(cash, shorts, sym, quantity) ==
    IF sym \notin DOMAIN shorts
    THEN ShortResult(cash, shorts, FALSE, "No short position found")
    ELSE
    LET position == shorts[sym]
        i == FindStock(stocks, sym)
        closeCost == stocks[i].price * quantity
    IN ShortResult(cash - closeCost,
                   IF quantity >= position.quantity
                   THEN [k \in DOMAIN shorts \ {sym} |-> shorts[k]]
                   ELSE [shorts EXCEPT ![sym].quantity = @ - quantity],
                   TRUE, "Closed short position")

closeShort(sym, quantity) ==
    closeShortOn(portfolio.cash, shortPositions, sym, quantity)

(***************************************************************************)
(* AdvancedTradingFeatures: the margin account.  buyOnMargin hands its     *)
(* quantity to buy as it got it, without a check of its sign.              *)
(***************************************************************************)
\* updateMarginLevel(): equity is simulator.portfolio.totalValue, a property
\* no session has, so that marginLevel is NaN and marginCall, NaN < 130, false
updateMarginLevel(account) ==
    [account EXCEPT !.marginLevel = NaN, !.marginCall = FALSE]

\* enableMargin(multiplier)
enableMargin == updateMarginLevel([marginAccount EXCEPT !.enabled = TRUE])

MarginRejected(message) ==
    [session |-> Rejected(message), marginAccount |-> marginAccount]

\* buyOnMargin(symbol, quantity) with the marginRatio of the signature, 0.5:
\* the session and the margin account the call leaves behind.  The prices of
\* the stock ordered are even, so that half of the cost is whole.
buyOnMargin(sym, quantity) ==
    LET i == FindStock(stocks, sym) IN
    IF i = 0 THEN MarginRejected("Stock not found")
    ELSE IF ~marginAccount.enabled
    THEN MarginRejected("Margin trading not enabled")
    ELSE
    LET totalCost == stocks[i].price * ToNumber(quantity).number
        marginRequired == totalCost \div 2
    IN
    IF portfolio.cash < marginRequired
    THEN MarginRejected("Insufficient margin available")
    ELSE LET result == buy(sym, quantity) IN
         [session |-> result,
          marginAccount |->
            IF result.success
            THEN updateMarginLevel(
                    [marginAccount EXCEPT !.usedMargin = @ + marginRequired])
            ELSE marginAccount]

(***************************************************************************)
(* js/bot-api.js: the BotAPIServer that initializeBotAPI(simulator) builds *)
(* on the session.  Its orders go to buy and sell with the quantity of the *)
(* caller.                                                                 *)
(***************************************************************************)
\* the ids generateBotId and the callers come up with
ApiBotIds == {"BOT_1"}
UnknownBot == "BOT_0"

\* what placeOrder is called with: a side in either case or none of the two,
\* a quantity that is a number or a string.  The orders placed: every side
\* and quantity for AAPL under the id of a bot, and one well-formed order
\* under an unknown id or for an unknown symbol
ApiSides == {"BUY", "sell", "hold"}
ApiQuantities == {Num(-1), Num(0), Num(1), Str(<< "1" >>)}
ApiOrders ==
    [botId : ApiBotIds, symbol : {"AAPL"}, side : ApiSides,
     quantity : ApiQuantities]
    \cup [botId : ApiBotIds \cup {UnknownBot}, symbol : OrderSymbols,
          side : {"BUY"}, quantity : {Num(1)}]

\* the session object of registerBot
botSession(botId) ==
    [botId |-> botId, status |-> "connected",
     stats |-> [tradesExecuted |-> 0, ordersPlaced |-> 0, ordersExecuted |-> 0,
                ordersRejected |-> 0]]

\* registerBot(botConfig), the id being the one generateBotId made
registerBot(api, botId) ==
    [api EXCEPT
        !.botSessions = [k \in DOMAIN @ \cup {botId} |->
                            IF k = botId THEN botSession(botId) ELSE @[k]],
        !.connectedBots = @ \cup {botId}]

\* disconnectBot(botId) of a bot that has a session
disconnectBot(api, botId) ==
    [api EXCEPT !.botSessions[botId].status = "disconnected",
                !.connectedBots = @ \ {botId}]

\* executeOrderThroughSimulator(botId, order): the session the order leaves
\* behind, with the result of buy or sell
executeOrderThroughSimulator(order) ==
    IF FindStock(stocks, order.symbol) = 0
    THEN Rejected("Stock " \o order.symbol \o " not found")
    ELSE IF order.side = "BUY" THEN buy(order.symbol, order.quantity)
    ELSE sell(order.symbol, order.quantity)

\* the checks that open placeOrder: the error they return, "" for none
placeOrderError(api, botId, sym, side, quantity) ==
    IF botId \notin DOMAIN api.botSessions THEN "Bot not found"
    ELSE IF sym = "" \/ side = "" \/ ~Truthy(quantity)
    THEN "Missing required fields: symbol, side, quantity"
    ELSE IF toUpperCase(side) \notin {"BUY", "SELL"}
    THEN "Invalid side. Must be BUY or SELL"
    ELSE IF AtMost(quantity, Num(0)) THEN "Quantity must be positive"
    ELSE ""

\* the BotAPIServer after an order that passed the checks and returned result
orderBooked(api, order, result) ==
    [api EXCEPT
        !.botSessions[order.botId].stats =
            IF result.success
            THEN [@ EXCEPT !.ordersExecuted = @ + 1, !.tradesExecuted = @ + 1]
            ELSE [@ EXCEPT !.ordersRejected = @ + 1],
        !.orderBook = Append(@, [order EXCEPT !.status =
                                    IF result.success THEN "FILLED"
                                    ELSE "REJECTED"])]

(***************************************************************************)
(* The session's operations.                                               *)
(***************************************************************************)
Called(op, success, message) ==
    [op |-> op, success |-> success, message |-> message]

\* updatePrices(timeSkipMultiplier), as the interval and the tests call it
UpdatePrices(n, raw) ==
    /\ IF weeksExhausted(config, modeState, simulatedTime)
       THEN /\ lastOp' = Called("updatePrices", FALSE, "")
            /\ UNCHANGED <<stocks, priceHistory, simulatedTime>>
       ELSE /\ Len(priceHistory[stocks[1].symbol]) <= MaxTicks
            /\ LET r == tickStocks(1, stocks, priceHistory, raw) IN
                  /\ stocks' = r.stocks
                  /\ priceHistory' = r.priceHistory
            /\ simulatedTime' = simulatedTime + n
            /\ lastOp' = Called("updatePrices", TRUE, "")
    /\ UNCHANGED <<config, portfolio, trades, modeState, initialCapital,
                   shortPositions, shortCalls, marginAccount, botAPI>>
    /\ UNCHANGED outsideSession

\* The trade log of a daytrader session is capped by the day-trade limit
\* itself; MaxTrades caps the log of the other sessions.
LogBounded(log) == config.mode = "daytrader" \/ Len(log) <= MaxTrades

\* buyStock() of the game page: the share count is checked, then simulator.buy
Buy(sym, shares) ==
    /\ IF shares <= 0
       THEN /\ lastOp' = Called("buy", FALSE, "Invalid shares")
            /\ UNCHANGED <<portfolio, trades, modeState>>
       ELSE LET r == buy(sym, Num(shares)) IN
            /\ LogBounded(r.trades)
            /\ portfolio' = r.portfolio
            /\ trades' = r.trades
            /\ modeState' = r.modeState
            /\ lastOp' = Called("buy", r.success, r.message)
    /\ UNCHANGED <<config, stocks, priceHistory, simulatedTime, initialCapital,
                   shortPositions, shortCalls, marginAccount, botAPI>>
    /\ UNCHANGED outsideSession

\* sellStock() of the game page: the share count is checked, then simulator.sell
Sell(sym, shares) ==
    /\ IF shares <= 0
       THEN /\ lastOp' = Called("sell", FALSE, "Invalid shares")
            /\ UNCHANGED <<portfolio, trades, modeState>>
       ELSE LET r == sell(sym, Num(shares)) IN
            /\ LogBounded(r.trades)
            /\ portfolio' = r.portfolio
            /\ trades' = r.trades
            /\ modeState' = r.modeState
            /\ lastOp' = Called("sell", r.success, r.message)
    /\ UNCHANGED <<config, stocks, priceHistory, simulatedTime, initialCapital,
                   shortPositions, shortCalls, marginAccount, botAPI>>
    /\ UNCHANGED outsideSession

\* simulator.buy(symbol, shares) called on the session object itself, with
\* the share count the caller gives
BuyCall(sym, shares) ==
    LET r == buy(sym, shares) IN
    /\ LogBounded(r.trades)
    /\ portfolio' = r.portfolio
    /\ trades' = r.trades
    /\ modeState' = r.modeState
    /\ lastOp' = Called("buy", r.success, r.message)
    /\ UNCHANGED <<config, stocks, priceHistory, simulatedTime, initialCapital,
                   shortPositions, shortCalls, marginAccount, botAPI>>
    /\ UNCHANGED outsideSession

\* simulator.sell(symbol, shares) called on the session object itself
SellCall(sym, shares) ==
    LET r == sell(sym, shares) IN
    /\ LogBounded(r.trades)
    /\ portfolio' = r.portfolio
    /\ trades' = r.trades
    /\ modeState' = r.modeState
    /\ lastOp' = Called("sell", r.success, r.message)
    /\ UNCHANGED <<config, stocks, priceHistory, simulatedTime, initialCapital,
                   shortPositions, shortCalls, marginAccount, botAPI>>
    /\ UNCHANGED outsideSession

\* the share counts of the calls made on the session object: ten shares
\* less than none, and one share
CallShares == {Num(-10), Num(1)}

BuyDirect == \E sym \in OrderSymbols, shares \in CallShares : BuyCall(sym, shares)
SellDirect == \E sym \in OrderSymbols, shares \in CallShares : SellCall(sym, shares)

Tick == \E n \in TimeSkips(config), raw \in RawDraws : UpdatePrices(n, raw)
BuyOrder == \E sym \in OrderSymbols, shares \in ShareInputs : Buy(sym, shares)
SellOrder == \E sym \in OrderSymbols, shares \in ShareInputs : Sell(sym, shares)

\* AdvancedTradingFeatures.openShort(symbol, quantity)
OpenShort(sym, quantity) ==
    LET r == openShort(sym, quantity) IN
    /\ shortCalls < MaxShortCalls \/ ~r.success
    /\ shortCalls' = IF r.success THEN shortCalls + 1 ELSE shortCalls
    /\ portfolio' = [portfolio EXCEPT !.cash = r.cash]
    /\ shortPositions' = r.shortPositions
    /\ lastOp' = Called("openShort", r.success, r.message)
    /\ UNCHANGED <<config, stocks, priceHistory, trades, modeState,
                   simulatedTime, initialCapital, marginAccount, botAPI>>
    /\ UNCHANGED outsideSession

\* AdvancedTradingFeatures.closeShort(symbol, quantity)
CloseShort(sym, quantity) ==
    LET r == closeShort(sym, quantity) IN
    /\ shortCalls < MaxShortCalls \/ ~r.success
    /\ shortCalls' = IF r.success THEN shortCalls + 1 ELSE shortCalls
    /\ portfolio' = [portfolio EXCEPT !.cash = r.cash]
    /\ shortPositions' = r.shortPositions
    /\ lastOp' = Called("closeShort", r.success, r.message)
    /\ UNCHANGED <<config, stocks, priceHistory, trades, modeState,
                   simulatedTime, initialCapital, marginAccount, botAPI>>
    /\ UNCHANGED outsideSession

ShortOpen == \E sym \in OrderSymbols, q \in ShareInputs \ {0} : OpenShort(sym, q)
ShortClose == \E sym \in OrderSymbols, q \in ShareInputs \ {0} : CloseShort(sym, q)

\* AdvancedTradingFeatures.enableMargin()
EnableMargin ==
    /\ marginAccount' = enableMargin
    /\ lastOp' = Called("enableMargin", TRUE, "Margin enabled")
    /\ UNCHANGED <<config, stocks, priceHistory, portfolio, trades, modeState,
                   simulatedTime, initialCapital, shortPositions, shortCalls,
                   botAPI>>
    /\ UNCHANGED outsideSession

\* AdvancedTradingFeatures.buyOnMargin(symbol, quantity)
BuyOnMargin(sym, quantity) ==
    LET r == buyOnMargin(sym, quantity) IN
    /\ LogBounded(r.session.trades)
    /\ portfolio' = r.session.portfolio
    /\ trades' = r.session.trades
    /\ modeState' = r.session.modeState
    /\ marginAccount' = r.marginAccount
    /\ lastOp' = Called("buyOnMargin", r.session.success, r.session.message)
    /\ UNCHANGED <<config, stocks, priceHistory, simulatedTime, initialCapital,
                   shortPositions, shortCalls, botAPI>>
    /\ UNCHANGED outsideSession

\* AdvancedTradingFeatures.getMarginStatus(): updateMarginLevel() writes
\* the margin level and the margin call, whether margin is enabled or not
GetMarginStatus ==
    /\ marginAccount' = updateMarginLevel(marginAccount)
    /\ lastOp' = Called("getMarginStatus", TRUE, "")
    /\ UNCHANGED <<config, stocks, priceHistory, portfolio, trades, modeState,
                   simulatedTime, initialCapital, shortPositions, shortCalls,
                   botAPI>>
    /\ UNCHANGED outsideSession

\* the quantities buyOnMargin is called with
MarginQuantities == {Num(-1), Num(0), Num(1)}

MarginBuy ==
    \E sym \in OrderSymbols, quantity \in MarginQuantities :
        BuyOnMargin(sym, quantity)

\* BotAPIServer.registerBot(botConfig)
RegisterApiBot ==
    \E botId \in ApiBotIds \ DOMAIN botAPI.botSessions :
        /\ botAPI' = registerBot(botAPI, botId)
        /\ lastOp' = Called("registerBot", TRUE, "connected successfully")
        /\ UNCHANGED <<config, stocks, priceHistory, portfolio, trades,
                       modeState, simulatedTime, initialCapital, shortPositions,
                       shortCalls, marginAccount>>
        /\ UNCHANGED outsideSession

\* BotAPIServer.disconnectBot(botId)
DisconnectApiBot(botId) ==
    /\ IF botId \in DOMAIN botAPI.botSessions
       THEN /\ botAPI' = disconnectBot(botAPI, botId)
            /\ lastOp' = Called("disconnectBot", TRUE, "Bot disconnected")
       ELSE /\ lastOp' = Called("disconnectBot", FALSE, "Bot not found")
            /\ UNCHANGED botAPI
    /\ UNCHANGED <<config, stocks, priceHistory, portfolio, trades, modeState,
                   simulatedTime, initialCapital, shortPositions, shortCalls,
                   marginAccount>>
    /\ UNCHANGED outsideSession

\* BotAPIServer.placeOrder(botId, {symbol, side, quantity})
ApiOrder(botId, sym, side, quantity) ==
    LET error == placeOrderError(botAPI, botId, sym, side, quantity) IN
    /\ IF error # ""
       THEN /\ lastOp' = Called("placeOrder", FALSE, error)
            /\ UNCHANGED <<portfolio, trades, modeState, botAPI>>
       ELSE LET order == [botId |-> botId, symbol |-> sym,
                          side |-> toUpperCase(side), quantity |-> quantity,
                          status |-> "PENDING"]
                r == executeOrderThroughSimulator(order)
            IN /\ Len(botAPI.orderBook) < MaxOrders
               /\ LogBounded(r.trades)
               /\ portfolio' = r.portfolio
               /\ trades' = r.trades
               /\ modeState' = r.modeState
               /\ botAPI' = orderBooked(botAPI, order, r)
               /\ lastOp' = Called("placeOrder", r.success, r.message)
    /\ UNCHANGED <<config, stocks, priceHistory, simulatedTime, initialCapital,
                   shortPositions, shortCalls, marginAccount>>
    /\ UNCHANGED outsideSession

ApiDisconnect == \E botId \in ApiBotIds \cup {UnknownBot} : DisconnectApiBot(botId)
ApiPlaceOrder ==
    \E req \in ApiOrders :
        ApiOrder(req.botId, req.symbol, req.side, req.quantity)

(***************************************************************************)
(* The server: bot registration, POST /api/bot/order, the market-data      *)
(* interval and GET /api/portfolio.                                        *)
(***************************************************************************)
\* what a request may carry: "" is a missing field, 0 a missing limit_price
NameInputs == {"", "bot"}
KeyInputs == {"", "key"}
SymbolInputs == {"", "aapl", "ZZZZ"}
ActionInputs == {"", "buy", "SELL", "hold"}
QuantityInputs == {-100, 0, 1, 2}
LimitInputs == {0, 100000}

\* the hundredths of a cent, the unit of the server's amounts, in one cent
ServerUnit == 100

\* the prices one run of the market-data interval leaves behind: every price
\* moves by at most 1%
MarketDraws ==
    { [s \in Symbols |-> IF s = "AAPL" THEN 1785000 ELSE 8754500],
      [s \in Symbols |-> IF s = "AAPL" THEN 1800000 ELSE 8800000] }

\* the id the next registration gets
BotId(n) == <<"bot", n>>

\* const STOCKS = require('./js/stocks-data.js').REAL_STOCKS || []: the
\* catalog file declares REAL_STOCKS and exports nothing, so the property
\* is undefined and the server's list of stocks is the empty array
STOCKS == << >>

\* initializeMarketData: one Map entry per stock of STOCKS, the last entry
\* of a symbol taking its place
initializeMarketData ==
    [s \in {STOCKS[i].symbol : i \in DOMAIN STOCKS} |->
        STOCKS[CHOOSE i \in DOMAIN STOCKS :
                    /\ STOCKS[i].symbol = s
                    /\ \A j \in DOMAIN STOCKS :
                          STOCKS[j].symbol = s => j <= i].basePrice
        * ServerUnit]

\* the cash a registered bot starts with: 100000 dollars
BotStartingCash == 100000 * 100 * ServerUnit

\* totalCost * 0.001
commission(totalCost) == totalCost \div 1000

\* limit_price || market.price
orderPrice(limit_price, marketPrice) ==
    IF limit_price # 0 THEN limit_price ELSE marketPrice

\* "Check if order can be filled"
canFill(pf, action, sym, quantity, totalCost) ==
    IF action = "buy" THEN pf.cash >= totalCost + commission(totalCost)
    ELSE /\ sym \in DOMAIN pf.holdings
         /\ pf.holdings[sym].quantity >= quantity

\* "Execute order": the portfolio after a fill
executeOrder(pf, action, sym, quantity, price, totalCost) ==
    IF action = "buy"
    THEN [pf EXCEPT
            !.cash = @ - (totalCost + commission(totalCost)),
            !.holdings =
                IF sym \in DOMAIN pf.holdings
                THEN [@ EXCEPT ![sym].quantity = @ + quantity,
                               ![sym].costBasis = @ + totalCost]
                ELSE [k \in DOMAIN pf.holdings \cup {sym} |->
                        IF k = sym
                        THEN [symbol |-> sym, quantity |-> quantity,
                              costBasis |-> totalCost, currentPrice |-> price]
                        ELSE pf.holdings[k]]]
    ELSE [pf EXCEPT
            !.cash = @ + (totalCost - commission(totalCost)),
            !.holdings =
                IF pf.holdings[sym].quantity - quantity = 0
                THEN [k \in DOMAIN pf.holdings \ {sym} |-> pf.holdings[k]]
                ELSE [@ EXCEPT ![sym].quantity = @ - quantity]]

Response(status, success, order_id) ==
    [status |-> status, success |-> success, order_id |-> order_id]

\* wss.clients.forEach(client => client.send(message)), open clients only
broadcast(message) == {[to |-> c, message |-> message] : c \in wsClients}

\* client.send(message): the socket transmits what it is handed in the
\* order of the calls
send(queue, message) == Append(queue, message)

\* the frames of a step, handed over one after the other; wsBuffered keeps
\* them for the connections that are watched
RECURSIVE sendAll(_, _)
sendAll(buffered, frames) ==
    IF frames = << >> THEN buffered
    ELSE LET f == Head(frames) IN
         sendAll(IF f.to \in DOMAIN buffered
                 THEN [buffered EXCEPT ![f.to] = send(@, f.message)]
                 ELSE buffered,
                 Tail(frames))

RECURSIVE SeqOf(_)
SeqOf(set) ==
    IF set = {} THEN << >>
    ELSE LET x == CHOOSE y \in set : TRUE IN <<x>> \o SeqOf(set \ {x})

FramesOf(frames) == {frames[i] : i \in DOMAIN frames}

\* the watched connections have room for the frames of a step
Fits(frames) ==
    \A c \in DOMAIN wsBuffered :
        Len(wsBuffered[c]) + Cardinality({i \in DOMAIN frames : frames[i].to = c})
            <= MaxFrames

\* a step that sends these frames
Sends(frames) ==
    /\ Fits(frames)
    /\ wsSent' = FramesOf(frames)
    /\ wsBuffered' = sendAll(wsBuffered, frames)

SendsNothing == wsSent' = {} /\ UNCHANGED wsBuffered

\* the message of broadcastOrderUpdate
orderUpdate(order) ==
    [type |-> "order_update", order_id |-> order.id, status |-> order.status,
     data |-> order]

(***************************************************************************)
(* The process.  server.listen opens the listener; the SIGINT handler      *)
(* closes every WebSocket client and calls server.close(callback), whose   *)
(* callback calls process.exit(0).  server.close stops the listener and    *)
(* calls back once every connection has ended: the WebSocket connections   *)
(* that are closing and the HTTP connection a client keeps alive.  Time    *)
(* after the signal is counted in seconds.                                 *)
(***************************************************************************)
\* close codes: client.close() is called without a code, so the close frame
\* carries none and the peer's close event reports 1005; 1000 is the
\* normal-closure code
NormalClosure == 1000
NoStatusReceived == 1005

\* the time the shutdown is given, in seconds
ExitDeadline == 10

\* http.createServer(app) sets no keepAliveTimeout: a kept-alive connection
\* is ended after Node's default of 5 seconds without a request
KeepAliveTimeout == 5

\* the process after server.listen; answered tells whether the kept-alive
\* connection has carried a response, and idle counts the seconds since the
\* last one.  closing holds the clients the SIGINT handler has called
\* close() on, peerClosing those whose own close frame has arrived; the
\* sockets of both are still there.
Started ==
    [phase |-> "running", listening |-> TRUE, keepAlive |-> FALSE,
     answered |-> FALSE, closing |-> {}, peerClosing |-> {},
     closeFrames |-> {}, elapsed |-> 0, idle |-> 0]

\* a route has answered, whatever the status: on the kept-alive connection,
\* the only one that carries requests once the listener is closed, the
\* timeout starts with the response
Responds ==
    process' = IF process.phase = "closing" /\ process.keepAlive
               THEN [process EXCEPT !.idle = 0, !.answered = TRUE]
               ELSE process

\* let orderIdCounter = 1000
FirstOrderId == 1000

\* the server as started; watched are the client ids whose connections have
\* the messages handed to them recorded in wsBuffered
InitBotWatching(watched) ==
    /\ marketData = initializeMarketData
    /\ bots = EmptyMap
    /\ portfolios = EmptyMap
    /\ orders = << >>
    /\ orderIdCounter = FirstOrderId
    /\ botIdCounter = 1
    /\ lastOrder = Response(0, FALSE, 0)
    /\ wsClients = {}
    /\ subscriptions = EmptyMap
    /\ wsSent = {}
    /\ wsBuffered = [c \in watched |-> << >>]
    /\ process = Started

InitBot == InitBotWatching({})

\* a bot record that counts one order from the start
newBotCountingFromOne(botId, name, api_key) ==
    [id |-> botId, name |-> name, api_key |-> api_key, status |-> "connected",
     totalOrders |-> 1, filledOrders |-> 0, rejectedOrders |-> 0]

\* the bot record a registration stores
newBot(botId, name, api_key) ==
    [id |-> botId, name |-> name, api_key |-> api_key, status |-> "connected",
     totalOrders |-> 0, filledOrders |-> 0, rejectedOrders |-> 0]

\* the portfolio a registration stores: 100000 in cash, holdings: new Map()
newPortfolio ==
    [cash |-> BotStartingCash, holdings |-> EmptyMap, holdingsIs |-> "Map"]

\* POST /api/bot/register: a request without name or api_key is answered
\* 400 and registers nothing
RegisterBot(name, api_key) ==
    /\ IF name = "" \/ api_key = ""
       THEN UNCHANGED <<bots, portfolios, botIdCounter>>
       ELSE /\ botIdCounter <= MaxBots
            /\ LET botId == BotId(botIdCounter) IN
                /\ bots' = [k \in DOMAIN bots \cup {botId} |->
                      IF k = botId THEN newBot(botId, name, api_key)
                      ELSE bots[k]]
                /\ portfolios' = [k \in DOMAIN portfolios \cup {botId} |->
                      IF k = botId THEN newPortfolio ELSE portfolios[k]]
            /\ botIdCounter' = botIdCounter + 1
    /\ SendsNothing
    /\ UNCHANGED <<marketData, orders, orderIdCounter, lastOrder, wsClients,
                   subscriptions>>
    /\ Responds
    /\ UNCHANGED outsideProcess

\* 'demo-' + Math.random().toString(36).substr(2, 8): the key of a demo bot
\* is drawn by the server and is in no response
DemoKeys == {"demo-k3x9q2ab"}

\* POST /api/bot/demo: the bot is named after the counter as incremented
DemoBot(api_key) ==
    /\ botIdCounter <= MaxBots
    /\ LET botId == BotId(botIdCounter) IN
        /\ bots' = [k \in DOMAIN bots \cup {botId} |->
                      IF k = botId
                      THEN newBot(botId, <<"DemoBot", botIdCounter + 1>>, api_key)
                      ELSE bots[k]]
        /\ portfolios' = [k \in DOMAIN portfolios \cup {botId} |->
                      IF k = botId THEN newPortfolio ELSE portfolios[k]]
    /\ botIdCounter' = botIdCounter + 1
    /\ SendsNothing
    /\ UNCHANGED <<marketData, orders, orderIdCounter, lastOrder, wsClients,
                   subscriptions>>
    /\ Responds
    /\ UNCHANGED outsideProcess

\* a route that writes bot.status and nothing else; an unknown bot gets 404
SetStatus(botId, status) ==
    /\ IF botId \notin DOMAIN bots
       THEN UNCHANGED bots
       ELSE bots' = [bots EXCEPT ![botId].status = status]
    /\ SendsNothing
    /\ UNCHANGED <<marketData, portfolios, orders, orderIdCounter, botIdCounter,
                   lastOrder, wsClients, subscriptions>>
    /\ Responds
    /\ UNCHANGED outsideProcess

\* POST /api/bot/:botId/disconnect: the bot record is marked and kept
DisconnectBot(botId) == SetStatus(botId, "disconnected")

\* POST /api/bot/:botId/start
StartBot(botId) == SetStatus(botId, "running")

\* POST /api/bot/:botId/pause
PauseBot(botId) == SetStatus(botId, "paused")

\* GET /health, GET /api/market/data and GET /api/portfolio: the routes that
\* answer and write nothing
GetRoute ==
    /\ SendsNothing
    /\ UNCHANGED <<marketData, bots, portfolios, orders, orderIdCounter,
                   botIdCounter, lastOrder, wsClients, subscriptions>>
    /\ Responds
    /\ UNCHANGED outsideProcess

\* POST /api/bot/order
PlaceOrder(bot_id, api_key, symbol, action, quantity, limit_price) ==
    /\ IF bot_id \notin DOMAIN bots \/ bots[bot_id].api_key # api_key
       THEN /\ lastOrder' = Response(401, FALSE, 0)
            /\ SendsNothing
            /\ UNCHANGED <<bots, portfolios, orders, orderIdCounter>>
       ELSE IF symbol = "" \/ action = "" \/ quantity = 0
       THEN /\ lastOrder' = Response(400, FALSE, 0)
            /\ SendsNothing
            /\ UNCHANGED <<bots, portfolios, orders, orderIdCounter>>
       ELSE IF toLowerCase(action) \notin {"buy", "sell"}
       THEN /\ lastOrder' = Response(400, FALSE, 0)
            /\ SendsNothing
            /\ UNCHANGED <<bots, portfolios, orders, orderIdCounter>>
       ELSE IF toUpperCase(symbol) \notin DOMAIN marketData
       THEN /\ lastOrder' = Response(404, FALSE, 0)
            /\ SendsNothing
            /\ UNCHANGED <<bots, portfolios, orders, orderIdCounter>>
       ELSE
       LET sym == toUpperCase(symbol)
           act == toLowerCase(action)
           price == orderPrice(limit_price, marketData[sym])
           totalCost == price * quantity
           pf == portfolios[bot_id]
           filled == canFill(pf, act, sym, quantity, totalCost)
           order == [id |-> orderIdCounter, bot_id |-> bot_id, symbol |-> sym,
                     action |-> act, quantity |-> quantity, price |-> price,
                     totalCost |-> totalCost,
                     status |-> IF filled THEN "filled" ELSE "rejected",
                     commission |-> commission(totalCost)]
       IN
       IF pf.holdingsIs = "Object" /\ (act = "sell" \/ filled)
       THEN \* portfolio.holdings.get on a plain object raises a TypeError:
            \* in the check of a sell, and in a buy after the cash was
            \* taken; the error handler answers 500
            /\ orderIdCounter < FirstOrderId + MaxOrders
            /\ orderIdCounter' = orderIdCounter + 1
            /\ portfolios' =
                 IF act = "buy"
                 THEN [portfolios EXCEPT
                         ![bot_id].cash = @ - (totalCost + commission(totalCost))]
                 ELSE portfolios
            /\ lastOrder' = Response(500, FALSE, 0)
            /\ SendsNothing
            /\ UNCHANGED <<bots, orders>>
       ELSE
       /\ Len(orders) < MaxOrders
       /\ orderIdCounter' = orderIdCounter + 1
       /\ portfolios' =
            IF filled
            THEN [portfolios EXCEPT
                    ![bot_id] = executeOrder(pf, act, sym, quantity, price, totalCost)]
            ELSE portfolios
       /\ bots' = [bots EXCEPT
                    ![bot_id].filledOrders = IF filled THEN @ + 1 ELSE @,
                    ![bot_id].rejectedOrders = IF filled THEN @ ELSE @ + 1,
                    ![bot_id].totalOrders = @ + 1]
       /\ orders' = Append(orders, order)
       /\ Sends(SeqOf(broadcast(orderUpdate(order))))
       /\ lastOrder' = Response(IF filled THEN 201 ELSE 400, filled, order.id)
    /\ UNCHANGED <<marketData, botIdCounter, wsClients, subscriptions>>
    /\ Responds
    /\ UNCHANGED outsideProcess

\* the 5-second interval: it moves the price of every entry of marketData
\* and broadcasts the updated entries, of which the server has none
MarketUpdate(draw) ==
    /\ marketData' = [s \in DOMAIN marketData |->
                        Max(PriceFloor * ServerUnit, draw[s])]
    /\ Sends(SeqOf(broadcast([type |-> "market_update", data |-> marketData'])))
    /\ UNCHANGED <<bots, portfolios, orders, orderIdCounter, botIdCounter,
                   lastOrder, wsClients, subscriptions>>
    /\ UNCHANGED outsideBots

RECURSIVE SumHoldings(_, _, _)
SumHoldings(h, market, syms) ==
    IF syms = {} THEN 0
    ELSE LET k == CHOOSE x \in syms : TRUE
             price == IF h[k].symbol \in DOMAIN market
                      THEN market[h[k].symbol] ELSE 0
         IN price * h[k].quantity + SumHoldings(h, market, syms \ {k})

\* GET /api/portfolio?bot_id=...: the status and the totalValue of the
\* answer.  On the portfolio a reset leaves, whose holdings are a plain
\* object, holdings.forEach raises a TypeError and the error handler
\* answers 500.
portfolioTotalValue(bot_id) ==
    IF bot_id \notin DOMAIN portfolios
    THEN [status |-> 404, totalValue |-> 0]
    ELSE IF portfolios[bot_id].holdingsIs = "Object"
    THEN [status |-> 500, totalValue |-> 0]
    ELSE [status |-> 200,
          totalValue |->
            portfolios[bot_id].cash
            + SumHoldings(portfolios[bot_id].holdings, marketData,
                          DOMAIN portfolios[bot_id].holdings)]

Register == \E name \in NameInputs, api_key \in KeyInputs : RegisterBot(name, api_key)
\* a quantity whose price is above the cash a bot starts with
LargeSale == -600

\* the order requests sent to the server: every body under the bot's own key,
\* one well-formed body under a wrong key or an unknown bot id, and a sale
\* of LargeSale shares
OrderRequests ==
    [bot_id : DOMAIN bots, api_key : {"key"}, symbol : SymbolInputs,
     action : ActionInputs, quantity : QuantityInputs, limit_price : LimitInputs]
    \cup [bot_id : DOMAIN bots \cup {BotId(0)}, api_key : {"key", "bad"},
          symbol : {"aapl"}, action : {"buy"}, quantity : {1}, limit_price : {0}]
    \cup [bot_id : DOMAIN bots, api_key : {"key"}, symbol : {"aapl"},
          action : {"SELL"}, quantity : {LargeSale}, limit_price : {0}]

Order ==
    \E req \in OrderRequests :
        PlaceOrder(req.bot_id, req.api_key, req.symbol, req.action,
                   req.quantity, req.limit_price)
MarketTick == \E draw \in MarketDraws : MarketUpdate(draw)
Disconnect == \E botId \in DOMAIN bots \cup {BotId(0)} : DisconnectBot(botId)
Demo == \E api_key \in DemoKeys : DemoBot(api_key)
Start == \E botId \in DOMAIN bots \cup {BotId(0)} : StartBot(botId)
Pause == \E botId \in DOMAIN bots \cup {BotId(0)} : PauseBot(botId)

\* orders.forEach((order, key) => { if (order.botId === botId)
\* orders.delete(key) }): the orders left by the reset, those whose
\* property botId is not the bot's
ordersAfterReset(log, botId) ==
    SelectSeq(log, LAMBDA order : ~("botId" \in DOMAIN order /\ order.botId = botId))

\* POST /api/bot/:botId/reset: the portfolio is replaced by one whose
\* holdings are a plain object ({}), bot.initialCapital is never set
ResetBot(botId) ==
    /\ IF botId \notin DOMAIN bots
       THEN UNCHANGED <<bots, portfolios, orders>>
       ELSE /\ portfolios' = [portfolios EXCEPT
                                ![botId] = [cash |-> BotStartingCash,
                                            holdings |-> EmptyMap,
                                            holdingsIs |-> "Object"]]
            /\ orders' = ordersAfterReset(orders, botId)
            /\ bots' = [bots EXCEPT ![botId].status = "reset"]
    /\ SendsNothing
    /\ UNCHANGED <<marketData, orderIdCounter, botIdCounter, lastOrder,
                   wsClients, subscriptions>>
    /\ Responds
    /\ UNCHANGED outsideProcess

Reset == \E botId \in DOMAIN bots \cup {BotId(0)} : ResetBot(botId)

\* a bot's market order under its own key: buy or sell one or two shares
TradeShares ==
    \E bot_id \in DOMAIN bots, action \in {"buy", "SELL"}, quantity \in {1, 2} :
        PlaceOrder(bot_id, "key", "aapl", action, quantity, 0)

(***************************************************************************)
(* The WebSocket side of the server: a connection gets a client id, its    *)
(* messages subscribe it to channels or unsubscribe it, and closing it     *)
(* drops its subscriptions.  The server keeps nothing else about a         *)
(* connection: no bot id, no key.                                          *)
(***************************************************************************)
ClientInputs == {"c1", "c2"}
ChannelInputs == {"order_update", "market_data"}
\* the frames a client sends: well-formed messages and one that is not JSON
WsMessages ==
    [type : {"subscribe", "unsubscribe"}, channel : ChannelInputs]
    \cup [type : {"ping", "other", "not json"}, channel : {""}]

\* the channels a client id is subscribed to
channelsOf(clientId) ==
    IF clientId \in DOMAIN subscriptions THEN subscriptions[clientId] ELSE {}

\* what a client puts in the Authorization header of its upgrade request:
\* nothing, a token that does not verify, a token that does
AuthorizationInputs == {"", "Bearer bad", "Bearer good"}

\* new WebSocket.Server({ server }) and wss.on('connection'): the server is
\* made without a verifyClient callback, so every upgrade request is
\* accepted and the handler never reads the request
Accepted(clientId, authorization) ==
    /\ clientId \notin wsClients \cup process.closing \cup process.peerClosing
    /\ wsClients' = wsClients \cup {clientId}
    /\ wsSent' = {}
    /\ wsBuffered' = IF clientId \in DOMAIN wsBuffered
                     THEN [wsBuffered EXCEPT ![clientId] = << >>]
                     ELSE wsBuffered
    /\ UNCHANGED <<marketData, bots, portfolios, orders, orderIdCounter,
                   botIdCounter, lastOrder, subscriptions>>

\* an upgrade request that arrives over a connection of its own
Connection(clientId, authorization) ==
    /\ Accepted(clientId, authorization)
    /\ UNCHANGED outsideBots

\* an upgrade request that arrives over the kept-alive connection, which
\* becomes the WebSocket; the closed listener plays no part
ConnectionKeptAlive(clientId, authorization) ==
    /\ process.phase # "exited" /\ process.keepAlive
    /\ Accepted(clientId, authorization)
    /\ process' = [process EXCEPT !.keepAlive = FALSE, !.answered = FALSE]
    /\ UNCHANGED outsideProcess

\* ws.send(message) in a message handler: the socket of a client that is
\* closing hands nothing over, and the call returns
Delivered(frames) == SelectSeq(frames, LAMBDA f : f.to \in wsClients)

\* a handleSubscribe that confirms the subscription before it sends the
\* snapshot
handleSubscribeConfirmingFirst(clientId, channel) ==
    /\ subscriptions' =
        [k \in DOMAIN subscriptions \cup {clientId} |->
            IF k = clientId THEN channelsOf(clientId) \cup {channel}
            ELSE subscriptions[k]]
    /\ Sends(Delivered(
             <<[to |-> clientId,
                message |-> [type |-> "subscribed", channel |-> channel]]>>
             \o (IF channel = "market_data"
                 THEN <<[to |-> clientId,
                         message |-> [type |-> "market_snapshot",
                                      data |-> marketData]]>>
                 ELSE << >>)))

\* handleSubscribe
handleSubscribe(clientId, channel) ==
    /\ subscriptions' =
        [k \in DOMAIN subscriptions \cup {clientId} |->
            IF k = clientId THEN channelsOf(clientId) \cup {channel}
            ELSE subscriptions[k]]
    /\ Sends(Delivered(
             (IF channel = "market_data"
              THEN <<[to |-> clientId,
                      message |-> [type |-> "market_snapshot",
                                   data |-> marketData]]>>
              ELSE << >>)
             \o <<[to |-> clientId,
                    message |-> [type |-> "subscribed", channel |-> channel]]>>))

\* handleUnsubscribe
handleUnsubscribe(clientId, channel) ==
    /\ subscriptions' =
        IF clientId \in DOMAIN subscriptions
        THEN [subscriptions EXCEPT ![clientId] = @ \ {channel}]
        ELSE subscriptions
    /\ SendsNothing

\* ws.on('message'), for a client that is open or, after client.close(),
\* closing: the socket emits the messages that arrive until it has ended
OnMessage(clientId, data) ==
    /\ clientId \in wsClients \cup process.closing
    /\ IF data.type = "not json"
       THEN /\ Sends(Delivered(<<[to |-> clientId,
                         message |-> [error |-> "Invalid message format"]]>>))
            /\ UNCHANGED subscriptions
       ELSE IF data.type = "subscribe"
       THEN handleSubscribe(clientId, data.channel)
       ELSE IF data.type = "unsubscribe"
       THEN handleUnsubscribe(clientId, data.channel)
       ELSE IF data.type = "ping"
       THEN /\ Sends(Delivered(<<[to |-> clientId,
                                   message |-> [type |-> "pong"]]>>))
            /\ UNCHANGED subscriptions
       ELSE /\ Sends(Delivered(<<[to |-> clientId,
                         message |-> [error |-> "Unknown message type"]]>>))
            /\ UNCHANGED subscriptions
    /\ UNCHANGED <<marketData, bots, portfolios, orders, orderIdCounter,
                   botIdCounter, lastOrder, wsClients>>
    /\ UNCHANGED outsideBots

\* the connections the server has: the open clients and those that are
\* closing, whose sockets have not ended
Connections == wsClients \cup process.closing \cup process.peerClosing

\* a client sends a close frame and keeps its socket open: ws answers the
\* frame and the client is CLOSING, no longer OPEN.  ws.on('close') runs
\* only when the socket has ended (ws ends it itself after 30 seconds):
\* until then the subscriptions of the client stay.
CloseFrame(clientId) ==
    /\ clientId \in wsClients
    /\ wsClients' = wsClients \ {clientId}
    /\ process' = [process EXCEPT !.peerClosing = @ \cup {clientId}]
    /\ SendsNothing
    /\ UNCHANGED <<marketData, bots, portfolios, orders, orderIdCounter,
                   botIdCounter, lastOrder, subscriptions>>
    /\ UNCHANGED outsideProcess

\* server.close has been called and these connections are all the server
\* still has
LastToEnd(ended) ==
    /\ process.phase = "closing" /\ ~process.keepAlive
    /\ Connections = ended

\* close handlers that leave the subscriptions of their connections behind
OnCloseKeepingSubscriptions(subs, ended) == subs

\* ws.on('close') of each of these connections: subscriptions.delete(clientId)
OnClose(subs, ended) == [k \in DOMAIN subs \ ended |-> subs[k]]

\* the sockets of these connections, open or closing, end in the same turn
\* of the event loop.  The server counts its connections down when a socket
\* ends and ws.on('close') runs later in that turn.  After server.close,
\* when the sockets that end are the last ones, the callback of
\* server.close, which ends the process, comes between the two: none of
\* their close handlers runs and their subscriptions stay.
SocketsEnd(ended) ==
    /\ ended # {} /\ ended \subseteq Connections
    /\ process.phase # "exited"
    /\ wsClients' = wsClients \ ended
    /\ process' = [process EXCEPT !.closing = @ \ ended,
                                  !.peerClosing = @ \ ended]
    /\ subscriptions' = IF LastToEnd(ended) THEN subscriptions
                        ELSE OnClose(subscriptions, ended)
    /\ SendsNothing
    /\ UNCHANGED <<marketData, bots, portfolios, orders, orderIdCounter,
                   botIdCounter, lastOrder>>
    /\ UNCHANGED outsideProcess

Connect ==
    \E c \in ClientInputs, authorization \in AuthorizationInputs :
        Connection(c, authorization)
Message == \E c \in ClientInputs, data \in WsMessages : OnMessage(c, data)
ClientCloses == \E c \in ClientInputs : CloseFrame(c)
Close == \E ended \in SUBSET ClientInputs : SocketsEnd(ended)
\* a bot's market order for one share, sent under its own key
OwnOrder == \E bot_id \in DOMAIN bots : PlaceOrder(bot_id, "key", "aapl", "buy", 1, 0)

\* a request reaches the routes over a new connection, which the listener
\* accepts, or over the connection the client keeps alive
Reachable == process.phase # "exited" /\ (process.listening \/ process.keepAlive)

\* a client opens an HTTP connection and keeps it alive; it may have had a
\* request answered over it before the signal
HttpOpen ==
    /\ process.phase # "exited" /\ process.listening /\ ~process.keepAlive
    /\ \E answered \in BOOLEAN :
          process' = [process EXCEPT !.keepAlive = TRUE, !.answered = answered]
    /\ UNCHANGED botVars
    /\ UNCHANGED outsideProcess

\* the kept-alive connection ends: the client closes it or it times out
HttpEnd ==
    /\ process.phase # "exited" /\ process.keepAlive
    /\ process' = [process EXCEPT !.keepAlive = FALSE, !.answered = FALSE]
    /\ UNCHANGED botVars
    /\ UNCHANGED outsideProcess

\* process.on('SIGINT'), at every signal the process gets: client.close()
\* on every client, then server.close(callback).  A closing client is no
\* longer OPEN, and client.close() on it sends nothing.  The seconds are
\* counted from the first signal.
Sigint ==
    /\ process.phase # "exited"
    /\ process' = [process EXCEPT
                    !.phase = "closing",
                    !.listening = FALSE,
                    !.closing = @ \cup wsClients,
                    !.closeFrames = @ \cup {[to |-> c, code |-> NoStatusReceived] :
                                                c \in wsClients},
                    !.elapsed = IF process.phase = "running" THEN 0 ELSE @,
                    !.idle = IF process.phase = "running" THEN 0 ELSE @]
    /\ wsClients' = {}
    /\ SendsNothing
    /\ UNCHANGED <<marketData, bots, portfolios, orders, orderIdCounter,
                   botIdCounter, lastOrder, subscriptions>>
    /\ UNCHANGED outsideProcess

\* every connection has ended, those upgraded after the signal as well: the
\* callback of server.close is due
Drained ==
    /\ process.phase = "closing"
    /\ Connections = {} /\ ~process.keepAlive

\* the callback of server.close: process.exit(0)
Exit ==
    /\ Drained
    /\ process' = [process EXCEPT !.phase = "exited"]
    /\ UNCHANGED botVars
    /\ UNCHANGED outsideProcess

\* a second passes after the signal.  The callback runs as soon as it is
\* due.  The keep-alive timeout runs from a response: a kept-alive connection
\* that has carried one does not stay without a request for longer than the
\* timeout, and one that has carried none stays open for as long as its
\* client keeps it.  No timer of the program ends the wait.
Second ==
    /\ process.phase = "closing" /\ ~Drained
    /\ process.elapsed < MaxSeconds
    /\ process.keepAlive /\ process.answered => process.idle < KeepAliveTimeout
    /\ process' = [process EXCEPT
                    !.elapsed = @ + 1,
                    !.idle = IF process.keepAlive THEN @ + 1 ELSE @]
    /\ UNCHANGED botVars
    /\ UNCHANGED outsideProcess

UpgradeKeptAlive ==
    \E c \in ClientInputs, authorization \in AuthorizationInputs :
        ConnectionKeptAlive(c, authorization)

(***************************************************************************)
(* The save store of the server (in-memory storage): create a save code,   *)
(* save a preset, load a preset, delete a preset.  The create and the save *)
(* handler await savecodeExists and getOrCreateSave, whose promises are    *)
(* settled when they are returned: the handler goes on one microtask       *)
(* later.  The handlers of requests that arrive together all start before  *)
(* the first of them goes on, and they go on in turns, in the order in     *)
(* which they began to wait; no other handler starts before all are done.  *)
(***************************************************************************)
\* the codes generateSaveCode draws, and the codes requests name
GeneratedCodes == {"AAAAAAAAA", "BBBBBBBBB"}
CodeInputs == {"aaaaaaaaa", "BBBBBBBBB", "CCCCCCCCC"}

\* preset names of requests ("" is a missing presetName) and the game
\* states of their bodies: none, {x: 1} and {x: 2}
PresetInputs == {"", "a", "b"}
PresetParams == {"default", "a", "b", "constructor"}
GameStateInputs == {Undefined, [x |-> 1], [x |-> 2]}

\* names every object literal inherits from Object.prototype
InheritedNames == {"constructor"}

Null == "null"
NoCode == ""

\* while (... && attempts < 100)
RetryLimit == 100

\* a run of generateSaveCode results: n times the code `colliding`, then
\* always the code `final`.  The runs: a first draw that is kept or collides
\* once, a free code drawn only at the last retry, and no free code at all.
CodeDraws ==
    [colliding : {"AAAAAAAAA"}, n : {0}, final : GeneratedCodes]
    \cup {[colliding |-> "AAAAAAAAA", n |-> 1, final |-> "BBBBBBBBB"],
          [colliding |-> "BBBBBBBBB", n |-> 1, final |-> "AAAAAAAAA"],
          [colliding |-> "AAAAAAAAA", n |-> RetryLimit, final |-> "BBBBBBBBB"],
          [colliding |-> "AAAAAAAAA", n |-> RetryLimit + 1, final |-> "AAAAAAAAA"]}
generateSaveCode(d, i) == IF i <= d.n THEN d.colliding ELSE d.final

\* a first draw that is kept when it is free
FirstDraw == [colliding |-> "AAAAAAAAA", n |-> 0, final |-> "AAAAAAAAA"]

\* gameSaves.has(code.toUpperCase())
savecodeExists(saves, code) == toUpperCase(code) \in DOMAIN saves

\* the store after getOrCreateSave(code)
getOrCreateSave(saves, code) ==
    LET upperCode == toUpperCase(code) IN
    IF upperCode \in DOMAIN saves THEN saves
    ELSE [k \in DOMAIN saves \cup {upperCode} |->
            IF k = upperCode
            THEN [code |-> upperCode, presets |-> << >>,
                  activePreset |-> "default"]
            ELSE saves[k]]

\* save.presets is an object: its own keys in insertion order
OwnIndex(presets, name) ==
    IF \E i \in DOMAIN presets : presets[i].name = name
    THEN CHOOSE i \in DOMAIN presets : presets[i].name = name
    ELSE 0

\* save.presets?.[presetName]: an own entry, or what the object inherits
presetLookup(presets, name) ==
    IF OwnIndex(presets, name) # 0
    THEN [found |-> TRUE, data |-> presets[OwnIndex(presets, name)].data]
    ELSE IF name \in InheritedNames
    THEN [found |-> TRUE, data |-> Undefined]
    ELSE [found |-> FALSE, data |-> Undefined]

\* a write that keeps the data of a preset that exists
setPresetOnce(presets, name, gameState) ==
    IF OwnIndex(presets, name) # 0
    THEN presets
    ELSE Append(presets, [name |-> name, data |-> gameState])

\* save.presets[pName] = {data: gameState, ...}
setPreset(presets, name, gameState) ==
    IF OwnIndex(presets, name) # 0
    THEN [presets EXCEPT ![OwnIndex(presets, name)].data = gameState]
    ELSE Append(presets, [name |-> name, data |-> gameState])

\* delete save.presets[presetName]
deleteOwn(presets, name) ==
    LET i == OwnIndex(presets, name) IN
    IF i = 0 THEN presets
    ELSE SubSeq(presets, 1, i - 1) \o SubSeq(presets, i + 1, Len(presets))

\* the last remaining preset in place of the first
lastRemaining(presets) ==
    IF Len(presets) > 0 THEN presets[Len(presets)].name ELSE Null

\* remaining.length > 0 ? remaining[0] : null
firstRemaining(presets) ==
    IF Len(presets) > 0 THEN presets[1].name ELSE Null

SaveResponse(op, code, presetName, status, body) ==
    [op |-> op, code |-> code, presetName |-> presetName, status |-> status,
     body |-> body]

\* GET /api/saves/:code/preset/:presetName
getPreset(saves, code, presetName) ==
    LET upperCode == toUpperCase(code) IN
    IF upperCode \notin DOMAIN saves
    THEN SaveResponse("get", upperCode, presetName, 404, Undefined)
    ELSE LET preset == presetLookup(saves[upperCode].presets, presetName) IN
         IF ~preset.found
         THEN SaveResponse("get", upperCode, presetName, 404, Undefined)
         ELSE SaveResponse("get", upperCode, presetName, 200, preset.data)

InitSaves ==
    /\ gameSaves = EmptyMap
    /\ saveCalls = 0
    /\ saveTasks = [waiting |-> << >>, resumed |-> FALSE]
    /\ lastSave = SaveResponse("none", NoCode, "", 0, Undefined)

\* a request is handed to its handler: none of the waiting handlers has gone
\* on yet
Dispatched == ~saveTasks.resumed

\* the handler reaches an await and waits behind the handlers already waiting
Awaits(task) ==
    /\ Dispatched
    /\ Len(saveTasks.waiting) < MaxInFlight
    /\ saveCalls + Len(saveTasks.waiting) < MaxSaveCalls
    /\ saveTasks' = [saveTasks EXCEPT !.waiting = Append(@, task)]
    /\ UNCHANGED process

\* the handler that waited longest goes on and waits again
AwaitsAgain(task) ==
    /\ saveTasks' = [waiting |-> Append(Tail(saveTasks.waiting), task),
                     resumed |-> TRUE]
    /\ UNCHANGED process

\* the handler that waited longest goes on and answers
Answers(response) ==
    /\ saveTasks' = [waiting |-> Tail(saveTasks.waiting),
                     resumed |-> Tail(saveTasks.waiting) # << >>]
    /\ saveCalls' = saveCalls + 1
    /\ lastSave' = response
    /\ Responds

\* the create handler at await savecodeExists(code): the answer of the check
\* is the one of the moment of the call
AtExists(code, attempts, d) ==
    [op |-> "create", at |-> "savecodeExists", code |-> code,
     attempts |-> attempts, exists |-> savecodeExists(gameSaves, code), d |-> d]

\* POST /api/saves/create, up to the first await: the first code is drawn
\* and checked
CreateCode(d) ==
    /\ Awaits(AtExists(generateSaveCode(d, 1), 0, d))
    /\ UNCHANGED <<gameSaves, saveCalls, lastSave>>
    /\ UNCHANGED outsideSaves

\* POST /api/saves/create goes on after an await.  After savecodeExists:
\* the next turn of the uniqueness loop, the answer 500 of a loop that has
\* used up its retries, or getOrCreateSave(code).  After getOrCreateSave:
\* no middleware sets req.user, so the handler throws on req.user.userId,
\* with the save record made, and answers 500.
CreateGoesOn ==
    /\ saveTasks.waiting # << >>
    /\ LET call == Head(saveTasks.waiting) IN
       /\ call.op = "create"
       /\ IF call.at = "getOrCreateSave"
          THEN /\ Answers(SaveResponse("create", call.code, "", 500,
                                       [code |-> NoCode]))
               /\ UNCHANGED gameSaves
          ELSE IF call.exists /\ call.attempts < RetryLimit
          THEN /\ AwaitsAgain(AtExists(generateSaveCode(call.d, call.attempts + 2),
                                       call.attempts + 1, call.d))
               /\ UNCHANGED <<gameSaves, saveCalls, lastSave>>
          ELSE IF call.attempts >= RetryLimit
          THEN /\ Answers(SaveResponse("create", NoCode, "", 500,
                                       [code |-> NoCode]))
               /\ UNCHANGED gameSaves
          ELSE /\ gameSaves' = getOrCreateSave(gameSaves, call.code)
               /\ AwaitsAgain([op |-> "create", at |-> "getOrCreateSave",
                               code |-> call.code, d |-> call.d,
                               created |-> ~savecodeExists(gameSaves, call.code)])
               /\ UNCHANGED <<saveCalls, lastSave>>
    /\ UNCHANGED outsideSaves

\* POST /api/saves/:code, up to its await: the body is checked and
\* getOrCreateSave(code) makes the record that is missing
PutPreset(code, presetName, gameState) ==
    LET upperCode == toUpperCase(code)
        pName == IF presetName # "" THEN presetName ELSE "default"
    IN
    /\ IF ~Truthy(gameState)
       THEN /\ Dispatched
            /\ lastSave' = SaveResponse("put", upperCode, pName, 400, Undefined)
            /\ Responds
            /\ UNCHANGED <<gameSaves, saveCalls, saveTasks>>
       ELSE /\ Awaits([op |-> "put", code |-> upperCode, presetName |-> pName,
                       gameState |-> gameState])
            /\ gameSaves' = getOrCreateSave(gameSaves, code)
            /\ UNCHANGED <<saveCalls, lastSave>>
    /\ UNCHANGED outsideSaves

\* POST /api/saves/:code goes on after await getOrCreateSave(code): the
\* preset is written into the record and made the active one
PutGoesOn ==
    /\ saveTasks.waiting # << >>
    /\ LET call == Head(saveTasks.waiting) IN
       /\ call.op = "put"
       /\ gameSaves' =
            [gameSaves EXCEPT
                ![call.code].presets = setPreset(@, call.presetName, call.gameState),
                ![call.code].activePreset = call.presetName]
       /\ Answers(SaveResponse("put", call.code, call.presetName, 200,
                               call.gameState))
    /\ UNCHANGED outsideSaves

\* GET /api/saves/:code/preset/:presetName
LoadPreset(code, presetName) ==
    /\ Dispatched
    /\ lastSave' = getPreset(gameSaves, code, presetName)
    /\ Responds
    /\ UNCHANGED <<gameSaves, saveCalls, saveTasks>>
    /\ UNCHANGED outsideSaves

\* DELETE /api/saves/:code/preset/:presetName
DeletePreset(code, presetName) ==
    LET upperCode == toUpperCase(code) IN
    /\ Dispatched
    /\ UNCHANGED saveTasks
    /\ Responds
    /\ IF upperCode \notin DOMAIN gameSaves
       THEN /\ lastSave' = SaveResponse("delete", upperCode, presetName, 404, Undefined)
            /\ UNCHANGED <<gameSaves, saveCalls>>
       ELSE IF ~presetLookup(gameSaves[upperCode].presets, presetName).found
       THEN /\ lastSave' = SaveResponse("delete", upperCode, presetName, 404, Undefined)
            /\ UNCHANGED <<gameSaves, saveCalls>>
       ELSE LET remaining == deleteOwn(gameSaves[upperCode].presets, presetName) IN
            /\ saveCalls + Len(saveTasks.waiting) < MaxSaveCalls
            /\ gameSaves' =
                [gameSaves EXCEPT
                    ![upperCode].presets = remaining,
                    ![upperCode].activePreset =
                        IF @ = presetName THEN firstRemaining(remaining) ELSE @]
            /\ saveCalls' = saveCalls + 1
            /\ lastSave' = SaveResponse("delete", upperCode, presetName, 200, Undefined)
    /\ UNCHANGED outsideSaves

\* the save requests sent to the server: three presets under one code, one
\* of them saved with two game states and without one, one preset under
\* another code, and reads and deletes of a code that may not exist
PutRequests ==
    [code : {"aaaaaaaaa"}, presetName : PresetInputs, gameState : {[x |-> 1]}]
    \cup [code : {"aaaaaaaaa"}, presetName : {"a"}, gameState : GameStateInputs]
    \cup [code : {"BBBBBBBBB"}, presetName : {"a"}, gameState : {[x |-> 1]}]
PresetRequests ==
    [code : {"aaaaaaaaa"}, presetName : PresetParams]
    \cup [code : {"BBBBBBBBB", "CCCCCCCCC"}, presetName : {"a"}]

Create == \E d \in CodeDraws : CreateCode(d)
Put == \E req \in PutRequests : PutPreset(req.code, req.presetName, req.gameState)
Load == \E req \in PresetRequests : LoadPreset(req.code, req.presetName)
Delete == \E req \in PresetRequests : DeletePreset(req.code, req.presetName)
\* a first save under a code that was never created
PutDefault == \E code \in CodeInputs : PutPreset(code, "", [x |-> 1])

(***************************************************************************)
(* Export and import of a session (game page): getCurrentState builds the  *)
(* object that is posted as JSON, the server stores the parsed body and    *)
(* answers it as JSON, loadState builds a session from the answer.  A      *)
(* JavaScript date is a value of its own kind: JSON writes a Date as its   *)
(* ISO string, and a string read back stays a string unless the code       *)
(* passes it to new Date.  startTime and dailyStats, a number and an array *)
(* of plain numbers that JSON carries as they are, are left out.           *)
(***************************************************************************)
DateObject(day) == [type |-> "Date", day |-> day]

\* Date.prototype.toISOString, also what JSON.stringify writes for a Date
toISOString(date) == [type |-> "string", day |-> date.day]

\* new Date(value), for a Date or an ISO string
newDate(value) == [type |-> "Date", day |-> value.day]

\* the trade log as the session holds it: each entry carries a Date
tradeObjects(log) ==
    [i \in DOMAIN log |-> [log[i] EXCEPT !.simulatedTime = DateObject(@)]]

\* the simulator of the session, and the session as the page holds it:
\* gameConfig and the simulator's fields
simulatorObject ==
    [config |-> config,
     portfolio |-> portfolio,
     stocks |-> stocks,
     priceHistory |-> priceHistory,
     simulatedTime |-> DateObject(simulatedTime),
     trades |-> tradeObjects(trades),
     modeState |-> modeState,
     initialCapital |-> initialCapital]
sessionObject == [config |-> config, simulator |-> simulatorObject]

\* The page: gameConfig and simulator, null until a game is started, the
\* save code and the preset name it saves under, and what the import modal
\* has left on window: the presets it listed and the name of the preset
\* picked ("" for none).
NewPage ==
    [gameConfig |-> JsNull, simulator |-> JsNull, currentSaveCode |-> Null,
     currentPresetName |-> "default", importedPresets |-> << >>,
     selectedPresetName |-> ""]

\* the page that runs the session
SessionPage ==
    [NewPage EXCEPT !.gameConfig = config, !.simulator = simulatorObject]

\* gameConfig and simulator of a page
sessionOf(page) == [config |-> page.gameConfig, simulator |-> page.simulator]

getCurrentState(page) ==
    IF ~Truthy(page.simulator) THEN JsNull
    ELSE [config |-> page.gameConfig,
          simulator |-> [page.simulator EXCEPT
                            !.simulatedTime = toISOString(@)]]

\* what JSON.stringify writes for a number: NaN becomes null
jsonNumber(v) == IF v = NaN THEN JsNull ELSE v

\* JSON.parse(JSON.stringify(state)): in a saved session a Date becomes its
\* ISO string and NaN becomes null; plain objects and arrays of numbers and
\* strings come back as they went
jsonTransport(state) ==
    IF "simulator" \notin DOMAIN state THEN state
    ELSE [state EXCEPT
            !.simulator.trades =
                [i \in DOMAIN @ |->
                    [@[i] EXCEPT !.simulatedTime = toISOString(@),
                                 !.shares = jsonNumber(@)]],
            !.simulator.portfolio.holdings =
                [k \in DOMAIN @ |-> jsonNumber(@[k])]]

\* POST /api/saves/create with no other request in flight: the loop ends
\* at the first candidate that is not stored, or with its retries used up;
\* the handler then throws on req.user.userId, with the record made
createAlone(saves, d) ==
    LET free == {i \in 1..(RetryLimit + 1) :
                    ~savecodeExists(saves, generateSaveCode(d, i))}
        first == IF free = {} THEN RetryLimit + 1
                 ELSE CHOOSE i \in free : \A j \in free : i <= j
    IN IF first > RetryLimit
       THEN [status |-> 500, code |-> NoCode, saves |-> saves]
       ELSE [status |-> 500, code |-> NoCode,
             saves |-> getOrCreateSave(saves, generateSaveCode(d, first))]

\* POST /api/saves/:code with no other request in flight
putAlone(saves, code, presetName, gameState) ==
    [getOrCreateSave(saves, code) EXCEPT
        ![toUpperCase(code)].presets = setPreset(@, presetName, gameState),
        ![toUpperCase(code)].activePreset = presetName]

\* openExportModal on a page: without a game it alerts and sends nothing;
\* else the page asks the server for a new code and posts the state under
\* it only when that request was answered ok.  When a request fails the
\* page alerts 'Export failed' and keeps the save code it had.
openExportModal(page, saves, d) ==
    IF ~Truthy(page.simulator) \/ ~Truthy(page.gameConfig)
    THEN [page |-> page, saves |-> saves,
          alert |-> "No active game! Start a game first before exporting."]
    ELSE
    LET created == createAlone(saves, d) IN
    IF created.status \notin 200..299
    THEN [page |-> page, saves |-> created.saves, alert |-> "Export failed"]
    ELSE [page |-> [page EXCEPT !.currentSaveCode = created.code],
          saves |-> putAlone(created.saves, created.code, "default",
                             jsonTransport(getCurrentState(page))),
          alert |-> ""]

\* GET /api/saves/:code: the names of the presets of the record
listPresets(saves, code) ==
    LET upperCode == toUpperCase(code) IN
    IF upperCode \notin DOMAIN saves
    THEN [status |-> 404, presets |-> << >>]
    ELSE [status |-> 200,
          presets |-> [i \in DOMAIN saves[upperCode].presets |->
                          saves[upperCode].presets[i].name]]

ImportFailed(page, message) ==
    [page |-> page, loaded |-> FALSE, importError |-> message]

\* loadPresetsForCode(code): the presets listed are kept on window
loadPresetsForCode(page, code, saves) ==
    LET listed == listPresets(saves, code) IN
    IF listed.status # 200
    THEN ImportFailed(page, "Save code not found. Please check and try again.")
    ELSE IF Len(listed.presets) = 0
    THEN ImportFailed(page, "No saved data found for this code.")
    ELSE [page |-> [page EXCEPT !.importedPresets = listed.presets],
          loaded |-> TRUE, importError |-> ""]

\* loadState(state) on a page: the saved properties are copied over, the
\* date alone is rebuilt with new Date; a state without config or without
\* simulator leaves the page's own
loadState(page, state) ==
    IF ~Truthy(state) THEN page
    ELSE
    LET withConfig ==
            IF "config" \in DOMAIN state /\ Truthy(state.config)
            THEN [page EXCEPT !.gameConfig = state.config]
            ELSE page
    IN
    IF "simulator" \in DOMAIN state /\ Truthy(state.simulator)
    THEN [withConfig EXCEPT !.simulator =
            [config |-> constructorConfig(state.simulator.config),
             portfolio |-> state.simulator.portfolio,
             stocks |-> state.simulator.stocks,
             priceHistory |-> state.simulator.priceHistory,
             simulatedTime |-> newDate(state.simulator.simulatedTime),
             trades |-> state.simulator.trades,
             modeState |-> state.simulator.modeState,
             initialCapital |-> state.simulator.initialCapital]]
    ELSE withConfig

\* loadImportedGame on a page, importCode being what the import field
\* holds.  The presets of the code are listed unless the page has listed
\* presets before; the preset picked, or 'default', is fetched with a second
\* request and handed to loadState.  The store is read twice: as savesAtList
\* by the listing, as savesAtGet by the fetch.
loadImportedGame(page, importCode, savesAtList, savesAtGet) ==
    LET code == toUpperCase(trim(importCode)) IN
    IF code = "" THEN ImportFailed(page, "Please enter a save code.")
    ELSE IF Len(code) # 9
    THEN ImportFailed(page, "Save code must be 9 characters long.")
    ELSE
    LET listed == IF page.importedPresets = << >>
                  THEN loadPresetsForCode(page, code, savesAtList)
                  ELSE [page |-> page, loaded |-> TRUE, importError |-> ""]
    IN
    IF ~listed.loaded THEN listed
    ELSE
    LET presetName == IF listed.page.selectedPresetName # ""
                      THEN listed.page.selectedPresetName ELSE "default"
        response == getPreset(savesAtGet, code, presetName)
    IN
    IF response.status # 200
    THEN ImportFailed(listed.page,
                      "Failed to load preset \"" \o presetName \o "\".")
    ELSE [page |-> [loadState(listed.page, jsonTransport(response.body))
                        EXCEPT !.currentSaveCode = code,
                               !.currentPresetName = presetName],
          loaded |-> TRUE, importError |-> ""]

(***************************************************************************)
(* The chat log (chat-manager.js, in-memory store).  A message is kept by  *)
(* its id and its wall timestamp; the sender and the text play no part in  *)
(* a read.  addMessage takes the timestamp, awaits the sender's profile    *)
(* and pushes the message after: the calls that wait are resumed in the    *)
(* order in which they were made.  The timestamp is the reading of the     *)
(* wall clock, which may repeat (two calls within a millisecond) and go    *)
(* back (the clock is set).                                                *)
(***************************************************************************)
ChatLimits == {1, 2, 101}
ChatOffsets == {0, 1}

\* the clock reading of the last addMessage call
lastReading ==
    IF chatPending # << >> THEN chatPending[Len(chatPending)].timestamp
    ELSE IF chatMessages # << >> THEN chatMessages[Len(chatMessages)].timestamp
    ELSE 0

\* new Date(): the clock has moved on, stands still or has been set back
ClockReadings ==
    IF Len(chatMessages) + Len(chatPending) < MaxSkewed
    THEN {lastReading - 1, lastReading, lastReading + 1}
    ELSE {lastReading + 1}

Front(seq) == SubSeq(seq, 1, Len(seq) - 1)

\* Array.prototype.sort with (a, b) => a.timestamp - b.timestamp: ascending
\* and stable
RECURSIVE insertByTimestamp(_, _)
insertByTimestamp(sorted, m) ==
    IF sorted = << >> \/ sorted[Len(sorted)].timestamp <= m.timestamp
    THEN Append(sorted, m)
    ELSE Append(insertByTimestamp(Front(sorted), m), sorted[Len(sorted)])

RECURSIVE sortByTimestamp(_)
sortByTimestamp(log) ==
    IF log = << >> THEN << >>
    ELSE insertByTimestamp(sortByTimestamp(Front(log)), log[Len(log)])

\* Array.prototype.slice(start): a negative start counts from the end, and
\* -0 is 0
slice(seq, start) ==
    LET from == IF start < 0 THEN Max(Len(seq) + start, 0)
                ELSE IF start < Len(seq) THEN start ELSE Len(seq)
    IN SubSeq(seq, from + 1, Len(seq))

\* getInMemoryMessages: sort, slice(-limit - offset), slice(-limit)
getInMemoryMessages(log, limit, offset) ==
    [messages |-> slice(slice(sortByTimestamp(log), 0 - limit - offset),
                        0 - limit),
     total |-> Len(log)]

ReadResult(limit, offset, result) ==
    [limit |-> limit, offset |-> offset, messages |-> result.messages,
     total |-> result.total]

NoRead == ReadResult(0, 0, [messages |-> << >>, total |-> 0])

InitChat ==
    /\ chatMessages = << >>
    /\ chatPending = << >>
    /\ lastRead = NoRead

\* addMessage is called: const timestamp = new Date(), then the call awaits
\* getUserProfile
AddMessage(reading) ==
    /\ Len(chatMessages) + Len(chatPending) < MaxMessages
    /\ Len(chatPending) < MaxPending
    /\ chatPending' = Append(chatPending, [timestamp |-> reading])
    /\ lastRead' = NoRead
    /\ UNCHANGED chatMessages
    /\ UNCHANGED outsideChat

\* addMessage resumes, Firebase not configured: the message gets its id and
\* is pushed
PushMessage ==
    /\ chatPending # << >>
    /\ chatMessages' = Append(chatMessages,
                              [messageId |-> Len(chatMessages) + 1,
                               timestamp |-> Head(chatPending).timestamp])
    /\ chatPending' = Tail(chatPending)
    /\ lastRead' = NoRead
    /\ UNCHANGED outsideChat

\* getMessages(limit, offset), Firebase not configured
GetMessages(limit, offset) ==
    /\ lastRead' = ReadResult(limit, offset,
                              getInMemoryMessages(chatMessages, limit, offset))
    /\ UNCHANGED <<chatMessages, chatPending>>
    /\ UNCHANGED outsideChat

PostChat == \E reading \in ClockReadings : AddMessage(reading)
ReadChat == \E limit \in ChatLimits, offset \in ChatOffsets : GetMessages(limit, offset)

(***************************************************************************)
(* A challenge session.  The draws of its ticks include a news spike: the  *)
(* spike factor of updatePrices reaches 1.2, here AAPL gains 17% in one    *)
(* tick, from 178.50 to 209.35, which brings a position of two shares up   *)
(* by the daily target, 61.70.                                             *)
(***************************************************************************)
SpikeDraws == { <<20935, 87545, 87545>>, <<17850, 87545, 87545>> }

SpikeTick == \E raw \in SpikeDraws : UpdatePrices(1, raw)

(***************************************************************************)
(* user-manager.js, in-memory store: registerUser and forceCreateUser.     *)
(* registerUser is async: it reads the store in emailExists and in         *)
(* usernameExists and awaits each of them, awaits hashPassword and then    *)
(* writes the store.  Other calls run while a call waits at an await.      *)
(***************************************************************************)
Callers == {"r1", "r2"}
EmailInputs == {"", "a@x.io", "A@x.io", "no-at-sign"}
UsernameInputs == {"", "bob", "Bob "}
PasswordInputs == {"12345", "123456"}

Idle == [at |-> "idle"]

passwordLength(password) == IF password = "12345" THEN 5 ELSE 6

\* emailRegex.test
emailRegexTest(email) == email # "no-at-sign"

\* emailExists and usernameExists, on the in-memory store
emailExists(store, email) ==
    \E i \in DOMAIN store : store[i].email = toLowerCase(email)
usernameExists(store, username) ==
    \E i \in DOMAIN store : store[i].username = trim(toLowerCase(username))

Registered(caller, ok, error) == [caller |-> caller, ok |-> ok, error |-> error]

InitUsers ==
    /\ users = << >>
    /\ registering = [r \in Callers |-> Idle]
    /\ lastRegister = Registered("", TRUE, "")

\* registerUser is called and runs up to its first await: the validation,
\* then the call of emailExists for a call with an e-mail, and for a call
\* without one that of usernameExists; a call with neither goes straight
\* to hashPassword.  emailExists and usernameExists read the store when
\* they are called, and registerUser learns the answer when it resumes.
RegisterUser(caller, email, username, password) ==
    LET emailLower == IF email # "" THEN toLowerCase(email) ELSE Null
        userLower == IF username # "" THEN trim(toLowerCase(username)) ELSE Null
        thrown == IF passwordLength(password) < 6
                  THEN "Password must be at least 6 characters"
                  ELSE IF emailLower # Null /\ ~emailRegexTest(emailLower)
                  THEN "Invalid email format"
                  ELSE ""
    IN
    /\ registering[caller] = Idle
    /\ IF thrown # ""
       THEN /\ lastRegister' = Registered(caller, FALSE, thrown)
            /\ UNCHANGED registering
       ELSE /\ registering' =
                [registering EXCEPT ![caller] =
                    IF emailLower # Null
                    THEN [at |-> "emailExists", email |-> emailLower,
                          username |-> userLower,
                          exists |-> emailExists(users, emailLower)]
                    ELSE IF userLower # Null
                    THEN [at |-> "usernameExists", email |-> emailLower,
                          username |-> userLower,
                          exists |-> usernameExists(users, userLower)]
                    ELSE [at |-> "hashPassword", email |-> emailLower,
                          username |-> userLower, exists |-> FALSE]]
            /\ UNCHANGED lastRegister
    /\ UNCHANGED users
    /\ UNCHANGED outsideUsers

\* the call resumes after await emailExists(emailLower): it throws when the
\* e-mail was found, and else calls usernameExists, which reads the store
\* now, or, without a username, hashPassword
AfterEmailExists(caller) ==
    LET call == registering[caller] IN
    /\ call.at = "emailExists"
    /\ IF call.exists
       THEN /\ lastRegister' = Registered(caller, FALSE, "Email already registered")
            /\ registering' = [registering EXCEPT ![caller] = Idle]
       ELSE /\ registering' =
                [registering EXCEPT ![caller] =
                    IF call.username # Null
                    THEN [call EXCEPT !.at = "usernameExists",
                                      !.exists = usernameExists(users, call.username)]
                    ELSE [call EXCEPT !.at = "hashPassword", !.exists = FALSE]]
            /\ UNCHANGED lastRegister
    /\ UNCHANGED users
    /\ UNCHANGED outsideUsers

\* the call resumes after await usernameExists(userLower): it throws when
\* the name was found, and else calls hashPassword
AfterUsernameExists(caller) ==
    LET call == registering[caller] IN
    /\ call.at = "usernameExists"
    /\ IF call.exists
       THEN /\ lastRegister' = Registered(caller, FALSE, "Username already taken")
            /\ registering' = [registering EXCEPT ![caller] = Idle]
       ELSE /\ registering' = [registering EXCEPT ![caller] =
                                    [call EXCEPT !.at = "hashPassword"]]
            /\ UNCHANGED lastRegister
    /\ UNCHANGED users
    /\ UNCHANGED outsideUsers

\* the password is hashed: users.set(userId, userData) and the call returns
StoreUser(caller) ==
    LET call == registering[caller] IN
    /\ call.at = "hashPassword"
    /\ Len(users) < MaxUsers
    /\ users' = Append(users, [userId |-> Len(users) + 1, email |-> call.email,
                               username |-> call.username])
    /\ registering' = [registering EXCEPT ![caller] = Idle]
    /\ lastRegister' = Registered(caller, TRUE, "")
    /\ UNCHANGED outsideUsers

\* forceCreateUser, in-memory branch, from the point where hashPassword has
\* settled: the first stored user that has the e-mail or the name is
\* overwritten under its id, and without one the user is added.  Nothing
\* is validated and no other user is looked at.
ForceCreateUser(email, username) ==
    LET emailLower == IF email # "" THEN toLowerCase(email) ELSE Null
        userLower == IF username # "" THEN trim(toLowerCase(username)) ELSE Null
        matches == {i \in DOMAIN users :
                        \/ emailLower # Null /\ users[i].email = emailLower
                        \/ userLower # Null /\ users[i].username = userLower}
    IN
    /\ IF matches # {}
       THEN LET first == CHOOSE i \in matches : \A j \in matches : i <= j IN
            users' = [users EXCEPT ![first] =
                        [userId |-> users[first].userId, email |-> emailLower,
                         username |-> userLower]]
       ELSE /\ Len(users) < MaxUsers
            /\ users' = Append(users, [userId |-> Len(users) + 1,
                                       email |-> emailLower,
                                       username |-> userLower])
    /\ UNCHANGED <<registering, lastRegister>>
    /\ UNCHANGED outsideUsers

ForceCreate ==
    \E email \in EmailInputs, username \in UsernameInputs :
        ForceCreateUser(email, username)
CallRegister ==
    \E caller \in Callers, email \in EmailInputs, username \in UsernameInputs,
       password \in PasswordInputs :
        RegisterUser(caller, email, username, password)
ResumeRegister ==
    \E caller \in Callers : AfterEmailExists(caller) \/ AfterUsernameExists(caller)
FinishRegister == \E caller \in Callers : StoreUser(caller)

NextSim == Tick \/ BuyOrder \/ SellOrder

\* a day-trader session
InitDayTrader == InitSession({"daytrader"}) /\ InitBot /\ InitSaves /\ InitChat /\ InitUsers
SpecDayTrader == InitDayTrader /\ [][NextSim]_vars

\* a classic session with the short book
NextShort == Tick \/ BuyOrder \/ SellOrder \/ ShortOpen \/ ShortClose
InitShort == InitSession({"classic"}) /\ InitBot /\ InitSaves /\ InitChat /\ InitUsers
SpecShort == InitShort /\ [][NextShort]_vars

\* the server with its bots
InitServer == InitSession({"classic"}) /\ InitBot /\ InitSaves /\ InitChat /\ InitUsers

\* the server with its WebSocket clients
NextFeed ==
    Register \/ OwnOrder \/ MarketTick \/ Connect \/ Message \/ ClientCloses \/ Close
InitFeed == InitSession({"classic"}) /\ InitBot /\ InitSaves /\ InitChat /\ InitUsers
SpecFeed == InitFeed /\ [][NextFeed]_vars

\* the server, a bot and the WebSocket clients: the connections of client
\* c1 are watched and subscribe, those of c2 only connect and close
Subscribe ==
    \E channel \in ChannelInputs :
        OnMessage("c1", [type |-> "subscribe", channel |-> channel])
NextStream ==
    Register \/ OwnOrder \/ MarketTick \/ Connect \/ Subscribe \/ ClientCloses
    \/ Close
InitStream == InitSession({"classic"}) /\ InitBotWatching({"c1"}) /\ InitSaves /\ InitChat /\ InitUsers
SpecStream == InitStream /\ [][NextStream]_vars

\* the presets of the save store
NextSaves == Put \/ PutGoesOn \/ Load \/ Delete
InitSaveStore == InitSession({"classic"}) /\ InitBot /\ InitSaves /\ InitChat /\ InitUsers
SpecSaves == InitSaveStore /\ [][NextSaves]_vars

\* the save codes of the save store
NextCreate == Create \/ CreateGoesOn \/ PutDefault \/ PutGoesOn
InitCreate == InitSession({"classic"}) /\ InitBot /\ InitSaves /\ InitChat /\ InitUsers
SpecCreate == InitCreate /\ [][NextCreate]_vars

\* a custom (week-budget) session
\* the chat log and its readers
NextChat == PostChat \/ PushMessage \/ ReadChat
InitChatLog ==
    InitSession({"classic"}) /\ InitBot /\ InitSaves /\ InitChat /\ InitUsers
SpecChat == InitChatLog /\ [][NextChat]_vars

InitCustom == InitSession({"custom"}) /\ InitBot /\ InitSaves /\ InitChat /\ InitUsers
SpecCustom == InitCustom /\ [][NextSim]_vars

\* a challenge session: ticks with news spikes, and trading
NextChallenge == SpikeTick \/ BuyOrder \/ SellOrder
InitChallenge == InitSession({"challenge"}) /\ InitBot /\ InitSaves /\ InitChat /\ InitUsers
SpecChallenge == InitChallenge /\ [][NextChallenge]_vars

\* the server and its shutdown: requests arrive while the listener or a
\* kept-alive connection takes them, upgrades while the listener is open
\* a client that subscribes to the order updates, and a read of a preset
SubscribeOrders ==
    \E c \in ClientInputs :
        OnMessage(c, [type |-> "subscribe", channel |-> "order_update"])
ReadSave == LoadPreset("aaaaaaaaa", "default")
Request == Reachable /\ (Register \/ OwnOrder \/ GetRoute \/ ReadSave)
Upgrade == process.phase # "exited" /\ process.listening /\ Connect
Interval == process.phase # "exited" /\ MarketTick
NextShutdown ==
    Request \/ Upgrade \/ UpgradeKeptAlive \/ SubscribeOrders \/ ClientCloses
    \/ Close \/ Interval \/ HttpOpen \/ HttpEnd \/ Sigint \/ Exit \/ Second
InitShutdown == InitSession({"classic"}) /\ InitBot /\ InitSaves /\ InitChat /\ InitUsers
SpecShutdown == InitShutdown /\ [][NextShutdown]_vars

\* a classic session and every caller of buy and sell; a tick takes the
\* session to the next day and AAPL to 179.00
DayTick == simulatedTime < MaxDays /\ UpdatePrices(1, <<17900, 87600, 87545>>)
NextTrader ==
    \/ DayTick
    \/ BuyOrder
    \/ SellOrder
    \/ EnableMargin
    \/ GetMarginStatus
    \/ MarginBuy
    \/ RegisterApiBot
    \/ ApiDisconnect
    \/ ApiPlaceOrder
InitTrader == InitSession({"classic"}) /\ InitBot /\ InitSaves /\ InitChat /\ InitUsers
SpecTrader == InitTrader /\ [][NextTrader]_vars

\* the server, its bots and its WebSocket clients, with the reset route
NextReset ==
    Register \/ Demo \/ Order \/ Reset \/ Disconnect \/ MarketTick
    \/ Connect \/ Message \/ Close
SpecReset == InitServer /\ [][NextReset]_vars

\* the same, the bots trading a share or two at a time and the clients
\* subscribing to the order updates
NextCounters ==
    Register \/ Demo \/ TradeShares \/ Reset \/ Disconnect \/ Start \/ Pause
    \/ Connect \/ SubscribeOrders \/ Close
SpecCounters == InitServer /\ [][NextCounters]_vars

\* a classic session traded through the page and through calls made on
\* the session object itself
NextLedger == Tick \/ BuyOrder \/ SellOrder \/ BuyDirect \/ SellDirect
InitLedger == InitSession({"classic"}) /\ InitBot /\ InitSaves /\ InitChat /\ InitUsers
SpecLedger == InitLedger /\ [][NextLedger]_vars

\* a session with openShort, and the bots of the server
NextValue == Tick \/ BuyOrder \/ SellOrder \/ ShortOpen \/ Register \/ OwnOrder
InitValue == InitSession({"classic"}) /\ InitBot /\ InitSaves /\ InitChat /\ InitUsers
SpecValue == InitValue /\ [][NextValue]_vars

\* the user store and the registerUser calls under way
NextUsers == CallRegister \/ ResumeRegister \/ FinishRegister \/ ForceCreate
InitUserStore == InitSession({"classic"}) /\ InitBot /\ InitSaves /\ InitChat /\ InitUsers
SpecUsers == InitUserStore /\ [][NextUsers]_vars

\* classic sessions constructed with the starting capitals of CapitalInputs
InitCapital == InitSessionOf(CapitalConfigs) /\ InitBot /\ InitSaves /\ InitChat /\ InitUsers
SpecCapital == InitCapital /\ [][NextSim]_vars

(***************************************************************************)
(* Claims.                                                                 *)
(***************************************************************************)
Last(seq) == seq[Len(seq)]

\* the orders accepted on the current simulated day
AcceptedToday ==
    Cardinality({i \in DOMAIN trades : trades[i].simulatedTime = simulatedTime})

DayTradeLimitErrors ==
    {"Day trade limit reached (3 per day)", "Day trade limit reached"}

\* C1: every buy and sell is all-or-nothing: an accepted order changes cash,
\* position, trade log and (day-trader) mode state together, a rejected order
\* leaves portfolio, trade log and mode state as they were.
C1_OrderIsAtomic ==
    [][lastOp'.op \in {"buy", "sell"} =>
        IF lastOp'.success
        THEN /\ portfolio'.cash # portfolio.cash
             /\ portfolio'.holdings # portfolio.holdings
             /\ Len(trades') = Len(trades) + 1
             /\ config.mode = "daytrader" => modeState' # modeState
        ELSE UNCHANGED <<portfolio, trades, modeState>>]_vars

\* C2: without margin, the cash of a portfolio is never negative, whatever the
\* orders sent and whatever they carry (the session's buy and sell, and the
\* bot orders of the server).
C2_CashNeverNegative ==
    /\ portfolio.cash >= 0
    /\ \A b \in DOMAIN portfolios : portfolios[b].cash >= 0

\* C3: every position entry stored in a portfolio has a quantity above 0.
C3_PositionsArePositive ==
    /\ \A sym \in DOMAIN portfolio.holdings :
            GreaterThan(portfolio.holdings[sym], Num(0))
    /\ \A b \in DOMAIN portfolios :
        \A sym \in DOMAIN portfolios[b].holdings :
            portfolios[b].holdings[sym].quantity > 0

RECURSIVE ShortTerm(_, _, _)
ShortTerm(shorts, stks, syms) ==
    IF syms = {} THEN 0
    ELSE LET sym == CHOOSE x \in syms : TRUE
             price == stks[FindStock(stks, sym)].price
         IN (shorts[sym].quantity * price
                - shorts[sym].entryPrice * shorts[sym].quantity)
            + ShortTerm(shorts, stks, syms \ {sym})

\* a listed symbol the session holds neither long nor short
Flat(sym) ==
    Held(portfolio.holdings, sym) = Num(0) /\ sym \notin DOMAIN shortPositions

\* the sum of long quantity * current price over the positions of a session
RECURSIVE LongTerm(_, _, _)
LongTerm(h, stks, syms) ==
    IF syms = {} THEN 0
    ELSE LET sym == CHOOSE x \in syms : TRUE
             price == stks[FindStock(stks, sym)].price
         IN ToNumber(h[sym]).number * price + LongTerm(h, stks, syms \ {sym})

\* C4: at every moment the total value a session reports is cash
\* + sum(long quantity * current price) - sum(short quantity * current price
\* - short entry price * short quantity), and the total GET /api/portfolio
\* reports for a bot is the bot's cash plus its holdings at the market
\* price.  No session ever has a short position open, openShort raising an
\* error before it stores one (C30): the short term is that of an empty
\* short book.  A bot has no holdings, no order being filled.
C4_TotalValueIsCashAndPositions ==
    /\ getPortfolioValue =
            Num(portfolio.cash
                + LongTerm(portfolio.holdings, stocks, DOMAIN portfolio.holdings)
                - ShortTerm(shortPositions, stocks, DOMAIN shortPositions))
    /\ \A b \in DOMAIN portfolios :
          portfolioTotalValue(b).status = 200
          => /\ portfolios[b].holdings = EmptyMap
             /\ portfolioTotalValue(b).totalValue = portfolios[b].cash

\* C4 witness: the session holds shares bought at a price the stock has
\* since left, it has called openShort, and a bot is registered.
C4_Witness ==
    /\ lastOp.op = "openShort"
    /\ \E i \in DOMAIN trades :
          /\ trades[i].type = "BUY"
          /\ trades[i].symbol \in DOMAIN portfolio.holdings
          /\ trades[i].price # stocks[FindStock(stocks, trades[i].symbol)].price
    /\ getPortfolioValue # Num(initialCapital)
    /\ \E b \in DOMAIN portfolios : portfolioTotalValue(b).status = 200

\* C5 as claimed: in daytrader mode at most 3 orders are accepted within one
\* simulated day, and every further buy or sell of that day (any symbol, any
\* share count above 0) is rejected with the day-trade-limit error.
C5_FurtherOrdersGetLimitError ==
    /\ [](config.mode = "daytrader" => AcceptedToday <= 3)
    /\ [][\A sym \in OrderSymbols, shares \in ShareInputs \ {0} :
            (config.mode = "daytrader" /\ AcceptedToday >= 3
                /\ (Buy(sym, shares) \/ Sell(sym, shares)))
            => (~lastOp'.success
                    /\ lastOp'.message \in DayTradeLimitErrors)]_vars

\* an order that passes every check made before the day-trade check
PassesEarlierChecks(op, sym, shares) ==
    /\ shares > 0
    /\ FindStock(stocks, sym) # 0
    /\ IF op = "buy"
       THEN stocks[FindStock(stocks, sym)].price * shares <= portfolio.cash
       ELSE AtMost(Num(shares), Held(portfolio.holdings, sym))

\* C5, amended: in daytrader mode at most 3 orders (BUY and SELL together)
\* are accepted within one simulated day; every further buy or sell of that
\* day is rejected, with the day-trade-limit error whenever it passes the
\* checks made before the day-trade check (share count, symbol, cash for a
\* buy, shares held for a sell), and with the error of that check otherwise.
C5_DayTradeLimit ==
    /\ [](config.mode = "daytrader" => AcceptedToday <= 3)
    /\ [][\A sym \in OrderSymbols, shares \in ShareInputs :
            /\ (config.mode = "daytrader" /\ AcceptedToday >= 3
                    /\ Buy(sym, shares))
                => /\ ~lastOp'.success
                   /\ trades' = trades
                   /\ PassesEarlierChecks("buy", sym, shares)
                        <=> lastOp'.message \in DayTradeLimitErrors
            /\ (config.mode = "daytrader" /\ AcceptedToday >= 3
                    /\ Sell(sym, shares))
                => /\ ~lastOp'.success
                   /\ trades' = trades
                   /\ PassesEarlierChecks("sell", sym, shares)
                        <=> lastOp'.message \in DayTradeLimitErrors]_vars

\* C5 witness: three orders were accepted today and a fourth has just been
\* turned down with the day-trade-limit error.
C5_Witness ==
    /\ config.mode = "daytrader"
    /\ AcceptedToday = 3
    /\ lastOp.op \in {"buy", "sell"}
    /\ ~lastOp.success
    /\ lastOp.message \in DayTradeLimitErrors

\* C6: in daytrader mode the trade counter is reset when the clock crosses to
\* a new simulated day: it counts the orders accepted on the current day, so
\* an order refused for the limit alone is accepted one day later.
C6_CounterResetsEachDay ==
    config.mode = "daytrader" => modeState.totalDayTrades = AcceptedToday

\* C7: in custom mode with weeks = W the days advanced since the session
\* started never exceed W * 7, whatever day counts updatePrices is given.
C7_DaysWithinBudget ==
    config.mode = "custom" => simulatedTime <= config.weeks * 7

\* C8: once weeksRemaining() is 0 in custom mode, every further updatePrices
\* changes no price, no price history, not the date and not the portfolio,
\* and weeksRemaining() stays 0.
C8_ExhaustedClockIsNoOp ==
    [][(config.mode = "custom"
            /\ weeksRemaining(config, modeState, simulatedTime) = 0)
        => /\ weeksRemaining(config', modeState', simulatedTime') = 0
           /\ lastOp'.op = "updatePrices"
                => UNCHANGED <<stocks, priceHistory, simulatedTime, portfolio,
                               trades, modeState, shortPositions>>]_vars

\* C8 witness: the week budget is used up, the session holds a position, and
\* updatePrices has just been called and let nothing through.
C8_Witness ==
    /\ config.mode = "custom"
    /\ weeksRemaining(config, modeState, simulatedTime) = 0
    /\ portfolio.holdings # EmptyMap
    /\ lastOp.op = "updatePrices"
    /\ ~lastOp.success

\* C9: for every symbol every entry of its price history is above 0 and its
\* current price is the last entry of its price history.
C9_PriceIsLastOfHistory ==
    \A sym \in Symbols :
        /\ \A i \in DOMAIN priceHistory[sym] : priceHistory[sym][i] > 0
        /\ stocks[FindStock(stocks, sym)].price = Last(priceHistory[sym])

\* C10: every filled order executes at the current market price of its
\* symbol: whatever the order carries, the trade is logged at the price the
\* stock has at that moment and the cash moves by that price * quantity,
\* out for a buy and in for a sell (the session charges no commission).
\* The bot-order route of the server fills no order and moves no cash, its
\* market data holding no symbol.
C10_FillsAtMarketPrice ==
    /\ [][Len(trades') = Len(trades) + 1
            => LET t == Last(trades')
                   current == stocks[FindStock(stocks, t.symbol)].price
                   notional == current * ToNumber(t.shares).number
               IN /\ SubSeq(trades', 1, Len(trades)) = trades
                  /\ t.price = current
                  /\ portfolio'.cash =
                        IF t.type = "BUY" THEN portfolio.cash - notional
                        ELSE portfolio.cash + notional]_vars
    /\ [][lastOrder' # lastOrder
            => lastOrder'.status # 201 /\ portfolios' = portfolios]_vars

\* C10 witness: after a tick that moved the price of AAPL, two shares were
\* bought at the new price, and a bot's order has been answered.
C10_Witness ==
    /\ lastOp.op = "buy" /\ lastOp.success
    /\ Last(trades).symbol = "AAPL"
    /\ Last(trades).shares = Num(2)
    /\ Last(trades).price # REAL_STOCKS[1].basePrice
    /\ portfolio.cash = initialCapital - 2 * Last(trades).price
    /\ lastOrder.status = 404

C12_NonPositiveQuantityRefused ==
    [][/\ \A sym \in OrderSymbols, shares \in ShareInputs :
            (shares <= 0 /\ (Buy(sym, shares) \/ Sell(sym, shares)))
            => /\ ~lastOp'.success
               /\ UNCHANGED <<portfolio, trades, modeState>>
       /\ \A sym \in OrderSymbols, quantity \in MarginQuantities :
            (AtMost(quantity, Num(0)) /\ BuyOnMargin(sym, quantity))
            => /\ ~lastOp'.success
               /\ UNCHANGED <<portfolio, trades, modeState, marginAccount>>
       /\ \A req \in ApiOrders :
            (/\ AtMost(req.quantity, Num(0))
             /\ ApiOrder(req.botId, req.symbol, req.side, req.quantity))
            => /\ ~lastOp'.success
               /\ UNCHANGED <<portfolio, trades, modeState, botAPI>>]_vars

\* the dates of a trade log never go back
DatesNonDecreasing(log) ==
    \A i, j \in DOMAIN log : i <= j => log[i].simulatedTime <= log[j].simulatedTime

\* the operations that hand an order to buy or sell
OrderOps == {"buy", "sell", "buyOnMargin", "placeOrder"}

\* C13: the trade log is append-only and in acceptance order: an accepted
\* order appends exactly one entry, stamped with the current simulated date,
\* no other step changes the log, and the dates along the log never go back.
C13_TradesAppendOnly ==
    /\ []DatesNonDecreasing(trades)
    /\ [][IF lastOp'.op \in OrderOps /\ lastOp'.success
          THEN /\ Len(trades') = Len(trades) + 1
               /\ SubSeq(trades', 1, Len(trades)) = trades
               /\ Last(trades').simulatedTime = simulatedTime
               /\ lastOp'.op = "buy" => Last(trades').type = "BUY"
               /\ lastOp'.op = "buyOnMargin" => Last(trades').type = "BUY"
               /\ lastOp'.op = "sell" => Last(trades').type = "SELL"
          ELSE trades' = trades]_vars

\* C13 witness: two orders were accepted on different simulated days.
C13_Witness ==
    /\ Len(trades) >= 2
    /\ trades[1].simulatedTime < trades[2].simulatedTime
    /\ trades[1].type = "BUY"
    /\ trades[2].type = "SELL"

StoredCodes == {"AAAAAAAAA", "BBBBBBBBB", "CCCCCCCCC"}

\* C14: getPreset(c, p) returns exactly the snapshot of the last put on
\* (c, p): a put makes it the snapshot put, and a request on another preset
\* or another code never alters what is read from a preset that is stored.
C14_GetReturnsLastPut ==
    [][\A c \in StoredCodes, p \in PresetParams :
        LET before == getPreset(gameSaves, c, p)
            after == getPreset(gameSaves', c, p)
        IN IF lastSave'.code = c /\ lastSave'.presetName = p
           THEN (lastSave'.op = "put" /\ lastSave'.status = 200)
                    => (after.status = 200 /\ after.body = lastSave'.body)
           ELSE (c \in DOMAIN gameSaves
                    /\ OwnIndex(gameSaves[c].presets, p) # 0)
                    => after = before]_vars

\* C14 witness: preset a of code AAAAAAAAA was overwritten, other presets and
\* another code were written after it, and a read of it has just answered
\* the overwriting snapshot.
C14_Witness ==
    /\ lastSave = SaveResponse("get", "AAAAAAAAA", "a", 200, [x |-> 2])
    /\ "BBBBBBBBB" \in DOMAIN gameSaves
    /\ Len(gameSaves["AAAAAAAAA"].presets) >= 2
    /\ gameSaves["AAAAAAAAA"].presets[1] = [name |-> "a", data |-> [x |-> 2]]

\* C17: after a successful deletePreset(c, p), getPreset(c, p) answers 404,
\* and a second deletePreset(c, p) answers 404 and leaves the store as it was.
C17_DeleteIsIdempotent ==
    /\ []((lastSave.op = "delete" /\ lastSave.status = 200)
            => getPreset(gameSaves, lastSave.code, lastSave.presetName).status = 404)
    /\ [][(lastSave.op = "delete" /\ lastSave.status = 200
            /\ lastSave'.op = "delete" /\ lastSave'.code = lastSave.code
            /\ lastSave'.presetName = lastSave.presetName)
          => (lastSave'.status = 404 /\ gameSaves' = gameSaves)]_vars

\* the preset names of the model in lexicographic order
NameOrder == <<"a", "b", "constructor", "default">>
Rank(name) == CHOOSE i \in DOMAIN NameOrder : NameOrder[i] = name
OwnNames(presets) == {presets[i].name : i \in DOMAIN presets}
LexSmallest(names) ==
    IF names = {} THEN Null
    ELSE CHOOSE n \in names : \A m \in names : Rank(n) <= Rank(m)

\* a step that deletes the active preset of a save
DeletesActive ==
    /\ lastSave'.op = "delete"
    /\ lastSave'.status = 200
    /\ saveCalls' = saveCalls + 1
    /\ gameSaves[lastSave'.code].activePreset = lastSave'.presetName

\* C18 as claimed: when deletePreset removes the active preset, activePreset
\* becomes the lexicographically smallest remaining preset name, or null when
\* none remains.
C18_ActiveBecomesSmallest ==
    [][DeletesActive
        => gameSaves'[lastSave'.code].activePreset =
                LexSmallest(OwnNames(gameSaves'[lastSave'.code].presets))]_vars

\* C18, amended: when deletePreset removes the active preset, activePreset
\* becomes the remaining preset that was first written the earliest (the
\* first key of the presets object), or null when none remains.
C18_ActiveBecomesFirstWritten ==
    [][DeletesActive
        => LET remaining == gameSaves'[lastSave'.code].presets IN
           /\ remaining = deleteOwn(gameSaves[lastSave'.code].presets,
                                    lastSave'.presetName)
           /\ gameSaves'[lastSave'.code].activePreset =
                (IF Len(remaining) > 0 THEN remaining[1].name ELSE Null)]_vars

\* C18 witness: b, a and default were written in that order and default,
\* the active preset, has just been deleted: b is active, not a.
C18_Witness ==
    /\ saveCalls = 4
    /\ lastSave = SaveResponse("delete", "AAAAAAAAA", "default", 200, Undefined)
    /\ "AAAAAAAAA" \in DOMAIN gameSaves
    /\ Len(gameSaves["AAAAAAAAA"].presets) = 2
    /\ gameSaves["AAAAAAAAA"].presets[1].name = "b"
    /\ gameSaves["AAAAAAAAA"].presets[2].name = "a"
    /\ gameSaves["AAAAAAAAA"].activePreset = "b"

\* C19: createCode answers 201 with a new code whenever one of its
\* candidates (the first draw and up to 100 redraws) is not in the store, and
\* answers 500 only when every one of them collides: a create request that
\* has stored a new code answers 201 with that code, and one that answers
\* 500 has left its loop without a code, every candidate being stored.
C19_CreateSucceedsUnlessExhausted ==
    [][(CreateGoesOn /\ saveCalls' = saveCalls + 1)
        => LET call == Head(saveTasks.waiting) IN
           /\ (call.at = "getOrCreateSave" /\ call.created)
                => (lastSave'.status = 201
                        /\ lastSave'.body = [code |-> call.code])
           /\ lastSave'.status = 500
                => /\ call.at = "savecodeExists"
                   /\ \A i \in 1..(RetryLimit + 1) :
                        generateSaveCode(call.d, i) \in DOMAIN gameSaves]_vars

\* the page's export of the session into an empty store
Exported == openExportModal(SessionPage, EmptyMap, FirstDraw)

\* the session put under a code, as the page's export posts it
PutUnderCode ==
    putAlone(EmptyMap, "AAAAAAAAA", "default",
             jsonTransport(getCurrentState(SessionPage)))

\* C16: saving a session with getCurrentState, storing it with put,
\* fetching it with getPreset and restoring it with loadState gives a
\* session equal to the original in config, portfolio, prices and price
\* histories, simulated date, trades, mode state and initial capital; the
\* page's export stores the session under a code that its import loads.
C16_ExportImportRestores ==
    /\ LET imported == loadImportedGame(NewPage, "AAAAAAAAA", PutUnderCode,
                                        PutUnderCode) IN
       /\ imported.loaded
       /\ sessionOf(imported.page) = sessionObject
    /\ Exported.page.currentSaveCode # Null
    /\ loadImportedGame(NewPage, Exported.page.currentSaveCode,
                        Exported.saves, Exported.saves).loaded

\* the connections the last step sent a market update to
MarketUpdateRecipients ==
    {f.to : f \in {g \in wsSent : "type" \in DOMAIN g.message
                                  /\ g.message.type = "market_update"}}

\* C21: a market update goes to every open connection that is subscribed to
\* market_data at that time, and to no other connection.
C21_MarketUpdateToSubscribers ==
    [][(\E draw \in MarketDraws : MarketUpdate(draw))
       => MarketUpdateRecipients'
            = {c \in wsClients : "market_data" \in channelsOf(c)}]_vars

\* C22: a connection whose upgrade request carries no bearer token, or one
\* that does not verify, is refused at the handshake: it does not become an
\* open connection (and so is never sent a frame).
C22_HandshakeNeedsCredential ==
    [][\A c \in ClientInputs, authorization \in {"", "Bearer bad"} :
         Connection(c, authorization) => c \notin wsClients']_vars

IsPrefix(s, t) == Len(s) <= Len(t) /\ SubSeq(t, 1, Len(s)) = s

IsType(message, type) == "type" \in DOMAIN message /\ message.type = type

\* the order ids of the order updates of a message sequence, in its order
RECURSIVE OrderIdsOf(_)
OrderIdsOf(queue) ==
    IF queue = << >> THEN << >>
    ELSE (IF IsType(Head(queue), "order_update")
          THEN <<Head(queue).order_id>> ELSE << >>) \o OrderIdsOf(Tail(queue))

\* the ids of the accepted orders, in acceptance order
AcceptedIds == [i \in DOMAIN orders |-> orders[i].id]

\* s is t with entries left out
RECURSIVE IsSubsequence(_, _)
IsSubsequence(s, t) ==
    IF s = << >> THEN TRUE
    ELSE IF t = << >> THEN FALSE
    ELSE IF Head(s) = Head(t) THEN IsSubsequence(Tail(s), Tail(t))
    ELSE IsSubsequence(s, Tail(t))

QueueDepth == 2

\* C25: the messages held for a connection, here one whose client reads
\* nothing, never number more than Q: on a full queue a market update
\* takes the place of the oldest queued one.
C25_QueueIsBounded ==
    \A c \in DOMAIN wsBuffered \cap wsClients : Len(wsBuffered[c]) <= QueueDepth

\* the connections the last step sent a frame to
Recipients == {f.to : f \in wsSent}

C27_NoOrdersAfterDisconnect ==
    [][/\ \A req \in ApiOrders :
            (/\ req.botId \in DOMAIN botAPI.botSessions
             /\ botAPI.botSessions[req.botId].status = "disconnected"
             /\ ApiOrder(req.botId, req.symbol, req.side, req.quantity))
            => /\ ~lastOp'.success
               /\ portfolio' = portfolio
       /\ \A req \in OrderRequests :
            (/\ req.bot_id \in DOMAIN bots
             /\ bots[req.bot_id].status = "disconnected"
             /\ PlaceOrder(req.bot_id, req.api_key, req.symbol, req.action,
                           req.quantity, req.limit_price))
            => /\ ~lastOrder'.success
               /\ portfolios' = portfolios]_vars

IsSuffix(s, t) == Len(s) <= Len(t) /\ SubSeq(t, Len(t) - Len(s) + 1, Len(t)) = s

\* C28: a chat read returns a contiguous suffix of the log taken in
\* timestamp order, of at most min(limit, 100) messages.
C28_ReadIsBoundedSuffix ==
    [][\A limit \in ChatLimits, offset \in ChatOffsets :
          GetMessages(limit, offset)
          => /\ IsSuffix(lastRead'.messages, sortByTimestamp(chatMessages))
             /\ Len(lastRead'.messages) <= limit
             /\ Len(lastRead'.messages) <= 100]_vars

\* the messages of a log in timestamp order, without the offset most recent
\* ones, and of these the limit most recent
WindowOf(log, limit, offset) ==
    LET sorted == sortByTimestamp(log)
        last == Max(Len(sorted) - offset, 0)
    IN SubSeq(sorted, Max(last - limit, 0) + 1, last)

\* C29: a chat read with an offset leaves out the offset most recent
\* messages and returns the limit messages before them, with the size of
\* the log as total.
C29_OffsetSkipsMostRecent ==
    [][\A limit \in ChatLimits, offset \in ChatOffsets :
          GetMessages(limit, offset)
          => /\ lastRead'.messages = WindowOf(chatMessages, limit, offset)
             /\ lastRead'.total = Len(chatMessages)]_vars

\* C30: openShort(s, q) on a listed symbol the session holds no position
\* in, followed by closeShort(s, q) with the price not having moved in
\* between: both calls go through, the cash is again what it was before the
\* openShort and no short position for s is left.
C30_OpenThenCloseShortRestores ==
    \A sym \in Symbols, q \in ShareInputs \ {0} :
        Flat(sym) =>
            LET opened == openShort(sym, q)
                closed == closeShortOn(opened.cash, opened.shortPositions,
                                       sym, q)
            IN /\ opened.success
               /\ closed.success
               /\ closed.cash = portfolio.cash
               /\ sym \notin DOMAIN closed.shortPositions

\* C31: closeShort(s, q) is rejected, leaving cash and the short map
\* unchanged, whenever there is no open short position for s or q exceeds
\* the open short quantity.  No session has a short position open (C30):
\* every closeShort call is one for a symbol without an open short.
C31_CloseShortRejected ==
    [][\A sym \in OrderSymbols, q \in ShareInputs \ {0} :
          (/\ CloseShort(sym, q)
           /\ \/ sym \notin DOMAIN shortPositions
              \/ q > shortPositions[sym].quantity)
          => /\ ~lastOp'.success
             /\ portfolio' = portfolio
             /\ shortPositions' = shortPositions]_vars

\* C31 witness: a session that holds shares has called closeShort and been
\* told that there is no short position.
C31_Witness ==
    /\ lastOp = Called("closeShort", FALSE, "No short position found")
    /\ portfolio.holdings # EmptyMap
    /\ portfolio.cash < initialCapital
    /\ shortPositions = EmptyMap

\* C32: at no time does a portfolio hold both a long position and a short
\* position in the same symbol: openShort is refused, with the error that
\* names the long position, while a long position exists, and a buy is
\* refused while a short position exists.
C32_NeverLongAndShort ==
    /\ [](\A sym \in Symbols :
            ~(GreaterThan(Held(portfolio.holdings, sym), Num(0))
                /\ sym \in DOMAIN shortPositions))
    /\ [][\A sym \in OrderSymbols, q \in ShareInputs \ {0} :
            (OpenShort(sym, q)
                /\ GreaterThan(Held(portfolio.holdings, sym), Num(0)))
            => lastOp' = Called("openShort", FALSE,
                                "Close existing long position first")]_vars
    /\ [][\A sym \in OrderSymbols, shares \in ShareInputs \ {0} :
            (Buy(sym, shares) /\ sym \in DOMAIN shortPositions)
            => (~lastOp'.success /\ portfolio' = portfolio)]_vars

\* C33: in challenge mode, at each simulated-day boundary: if the portfolio
\* value minus the initial capital meets the daily target then daysCompleted
\* and streakDays each increase by 1, otherwise streakDays is reset to 0.
C33_ChallengeDayCounted ==
    [][(config.mode = "challenge" /\ simulatedTime' # simulatedTime)
        => IF getPortfolioValue'.number - initialCapital >= modeState.dailyTarget
           THEN /\ modeState'.daysCompleted = modeState.daysCompleted + 1
                /\ modeState'.streakDays = modeState.streakDays + 1
           ELSE modeState'.streakDays = 0]_vars

\* the retention bound H of a price history, scaled down
RetentionBound == 2

\* C34: the price history of every symbol is bounded: after any number of
\* ticks its length never exceeds the retention bound H.
C34_HistoryIsBounded ==
    \A sym \in Symbols : Len(priceHistory[sym]) <= RetentionBound

\* C35: after a shutdown signal the process stops accepting new orders,
\* sends every open connection a close frame with the normal-closure code,
\* and exits within 10 seconds even if in-flight work or open connections
\* remain.
C35_ShutdownIsGraceful ==
    /\ [][/\ process.phase # "running" => orders' = orders
          /\ (process.phase = "running" /\ process'.phase = "closing")
             => process'.closeFrames =
                    {[to |-> c, code |-> NormalClosure] : c \in wsClients}]_vars
    /\ [](process.phase = "closing" => process.elapsed <= ExitDeadline)

\* C36: no two registered users ever share the same email or the same
\* username (compared case-insensitively), whatever the interleaving of
\* the registerUser calls.
C36_UsersAreUnique ==
    \A i, j \in DOMAIN users :
        i # j =>
            /\ users[i].email # Null
               => toLowerCase(users[i].email) # toLowerCase(users[j].email)
            /\ users[i].username # Null
               => toLowerCase(users[i].username) # toLowerCase(users[j].username)

\* C37: a session configured with a starting capital above 1,000,000 starts
\* with cash and initial capital equal to exactly 1,000,000.
C37_CapitalIsCapped ==
    config.startingCapital > CapitalCap
    => /\ initialCapital = CapitalCap
       /\ lastOp.op = "new" => portfolio.cash = CapitalCap

\* C38: after POST /api/bot/:botId/reset the bot is in the state of a
\* freshly registered bot: its portfolio is the one a registration stores
\* (cash equal to the initial capital, no holdings), a read of it is
\* answered as that of a new bot is, no order is recorded for the bot, and
\* every later order for that bot is either filled with cash and holdings
\* updated together or rejected with both unchanged.
C38_ResetGivesFreshBot ==
    /\ [][\A b \in DOMAIN bots :
            ResetBot(b)
            => /\ portfolios'[b].cash = BotStartingCash
               /\ portfolios'[b].holdings = EmptyMap
               /\ portfolios'[b] = newPortfolio
               /\ \A i \in DOMAIN orders' : orders'[i].bot_id # b]_vars
    /\ [](\A b \in DOMAIN bots :
            bots[b].status = "reset"
            => portfolioTotalValue(b) =
                    [status |-> 200, totalValue |-> BotStartingCash])
    /\ [][\A b \in DOMAIN bots :
            (/\ bots[b].status = "reset"
             /\ \E req \in OrderRequests :
                 /\ req.bot_id = b
                 /\ PlaceOrder(req.bot_id, req.api_key, req.symbol, req.action,
                               req.quantity, req.limit_price))
            => IF lastOrder'.success
               THEN /\ portfolios'[b].cash # portfolios[b].cash
                    /\ portfolios'[b].holdings # portfolios[b].holdings
               ELSE portfolios'[b] = portfolios[b]]_vars

\* the orders recorded for a bot in the order history
OrdersOf(botId) == {i \in DOMAIN orders : orders[i].bot_id = botId}

C40_ActivePresetExists ==
    \A code \in DOMAIN gameSaves :
        gameSaves[code].activePreset # Null
        => /\ OwnIndex(gameSaves[code].presets, gameSaves[code].activePreset) # 0
           /\ getPreset(gameSaves, code, gameSaves[code].activePreset).status # 404

====
